---- MODULE Spec2Model ----
(***************************************************************************)
(* Usage & quota ledger (utils/payment.py), post scheduler                 *)
(* (utils/scheduler.py) and the page handlers that drive them              *)
(* (page/ad_pages.py) of the AdBot application.                            *)
(*                                                                         *)
(* Money is counted in cents.  The document store is modelled as           *)
(* collections: balances is a map from the tenants that have a balance     *)
(* document to its balance, usage and transactions are bags of documents   *)
(* (a collection holds documents under generated ids, in no order).        *)
(***************************************************************************)
EXTENDS Integers, Sequences, FiniteSets, Bags, TLC

\* ------------------------------------------------------------------ bounds

MaxMonth == 10
MaxUsage == 3
MaxTxns == 4

FirstMonth == MaxMonth - 1
Months == FirstMonth..MaxMonth

Tenants == {"t1", "t2"}
Callers == {"c1", "c2"}
Sessions == {"s1", "s2"}
UsageTypes == {"post", "analytics", "content_generation"}
Quantities == {1, 2}
FundAmounts == {0, 100}

\* ------------------------------------------------------- payment constants

\* PaymentManager.rates, in cents
rates ==
  [post |-> 50, image_generation |-> 25, analytics |-> 10, scheduled_post |-> 40]

\* self.rates.get(usage_type, 0.10)
RateGet(usage_type) ==
  IF usage_type \in DOMAIN rates THEN rates[usage_type] ELSE 10

\* the value "Unlimited" of a plan allowance
Unlimited == 0 - 1

\* PaymentManager.plans: the allowances _is_covered_by_plan reads.  The
\* analytics allowance is the boolean of the plan table, which Python compares
\* as 0 or 1; no plan has a scheduled_posts key.
plans ==
  [free       |-> [monthly_posts |-> 10, image_generation |-> 5, analytics |-> 0],
   starter    |-> [monthly_posts |-> 50, image_generation |-> 20, analytics |-> 1],
   business   |-> [monthly_posts |-> 200, image_generation |-> 100, analytics |-> 1],
   enterprise |-> [monthly_posts |-> Unlimited, image_generation |-> Unlimited,
                   analytics |-> 1]]

PlanIds == DOMAIN plans

\* the plan argument record_usage passes to _is_covered_by_plan
None == "None"

\* self.plans.get(plan, {}).get(key, 0)
PlanGet(plan, key) ==
  IF plan \in DOMAIN plans
    THEN IF key \in DOMAIN plans[plan] THEN plans[plan][key] ELSE 0
    ELSE 0

\* ---------------------------------------------------------------- time

\* datetime.datetime: the month of one year, the day, the microsecond of the
\* first second of the day
DateTimes == {dt \in [mon : Months, day : 1..2, us : 0..1] : dt.day = 1 \/ dt.us = 0}

\* chronological order
DtLE(a, b) ==
  \/ a.mon < b.mon
  \/ a.mon = b.mon /\ a.day < b.day
  \/ a.mon = b.mon /\ a.day = b.day /\ a.us <= b.us

\* datetime.isoformat(): zero-padded two-digit month and day, then the time,
\* and the microseconds only when they are not zero.  A string is the
\* sequence of its fields' digits.
isoformat_unpadded(dt) ==
  (IF dt.mon >= 10 THEN <<dt.mon \div 10, dt.mon % 10>> ELSE <<dt.mon>>)
    \o <<dt.day>> \o (IF dt.us = 0 THEN <<>> ELSE <<dt.us>>)

isoformat(dt) ==
  <<dt.mon \div 10, dt.mon % 10, 0, dt.day>>
    \o (IF dt.us = 0 THEN <<>> ELSE <<dt.us>>)

\* Python's str >= str: lexicographic, a proper prefix is smaller
RECURSIVE StrGE(_, _)
StrGE(a, b) ==
  IF b = <<>> THEN TRUE
  ELSE IF a = <<>> THEN FALSE
  ELSE IF Head(a) # Head(b) THEN Head(a) > Head(b)
  ELSE StrGE(Tail(a), Tail(b))

\* now.replace(day=1, hour=0, minute=0, second=0, microsecond=0)
MonthStart(dt) == [mon |-> dt.mon, day |-> 1, us |-> 0]


\* ------------------------------------------------------------------ state

VARIABLES
  now,           \* the wall clock, datetime.datetime.now()
  companies,     \* companies collection: tenant -> plan id
  balances,      \* balances collection: tenant with a document -> balance
  usage,         \* usage collection: bag of usage ledger entries
  transactions,  \* transactions collection: bag of credit/debit records
  call,          \* per request thread: the record_usage call in progress
  products,      \* ProductManager.products: product id -> product data
  schedules,     \* AdScheduler.schedules: schedule id -> schedule entry
  db_schedules,  \* schedules collection of the document store: id -> entry
  jobs,          \* the jobs registered with the schedule library, in order
  is_running,    \* AdScheduler.is_running
  threads,       \* the run_scheduler threads started so far, in order
  published,     \* the posts made on the platforms, in order
  metrics,       \* AnalyticsManager: the metrics records collected, in order
  posts,         \* posts collection of the document store, in order
  ret,           \* what the last call of schedule_post or cancel_schedule returned
  db_products,   \* products collection of the document store: id -> document
  post_analytics,\* post_analytics collection of the document store, in order
  dcall,         \* per session: its call of the DataAccessManager
  webhook,       \* the _handle_checkout_completed call of the webhook thread
  fcall          \* the last call of a function whose result is looked at: arguments, result

\* product data as the product form and the product file hold it
FullProduct(name) ==
  [name |-> name, description |-> "d", features |-> <<"f1", "f2">>,
   target_audience |-> "t", category |-> "c"]

\* no function called
NoFunctionCall == [fn |-> "", args |-> << >>, result |-> << >>, pc |-> "idle"]

\* the webhook thread outside _handle_checkout_completed.  Besides the
\* locals of the handler (company_id, amount, balance: the balance that
\* _add_funds_to_balance read) the record keeps whether a store operation of
\* the call raised (faulted) and which effects the call had (did_update,
\* did_txn, written: the balance it wrote).
NoWebhook ==
  [pc |-> "idle", company_id |-> "", amount |-> 0, balance |-> 0,
   faulted |-> FALSE, did_update |-> FALSE, did_txn |-> FALSE, written |-> 0]

\* a session that has called nothing of the DataAccessManager yet
NoDataCall ==
  [op |-> "", id |-> 0, company_id |-> "", data |-> << >>, pc |-> "idle", result |-> "",
   warned |-> FALSE]

ledgerVars == <<now, companies, balances, usage, transactions, call>>
dataVars == <<db_products, post_analytics, dcall, webhook, fcall>>
schedVars == <<dataVars, products, schedules, db_schedules, jobs, is_running, threads,
               published, metrics, posts, ret>>

\* PaymentManager.test_account (TEST_ACCOUNT is unset) and the id it exempts;
\* the tenants of the model are real companies, so the no-charge branch of
\* record_usage is never taken.
test_account == FALSE
TestCompanyId == "test-company-id"

NoResult == [success |-> FALSE, message |-> "", id |-> FALSE]

\* a request thread outside record_usage.  Besides the locals of the call
\* (company_id, usage_type, quantity, current_balance, result) the record
\* keeps what the properties below speak of: the store as the call found it
\* (pre_*), whether a store operation of the call raised (faulted), the usage
\* the plan check counted and the usage of the calendar month at that instant
\* (current_usage, month_usage), which effects the call had (did_*,
\* plan_covered, clamped), and whether the tenant's plan had room for the
\* action when the call began (entitled).  handler and platform are the page
\* handler that made the call, if one did, and the platform it posts to.
Idle ==
  [pc |-> "idle", company_id |-> "", usage_type |-> "", quantity |-> 0,
   current_balance |-> 0, checked |-> 0, result |-> NoResult,
   pre_balance |-> 0, pre_usage |-> 0, pre_txns |-> 0,
   faulted |-> FALSE, current_usage |-> 0, month_usage |-> 0,
   did_update |-> FALSE, did_txn |-> FALSE, did_usage |-> FALSE,
   plan_covered |-> FALSE, clamped |-> FALSE, entitled |-> FALSE,
   handler |-> "none", platform |-> ""]

\* balance.get("balance", 0) of a tenant's balance document, 0 without one
BalanceOf(company_id) ==
  IF company_id \in DOMAIN balances THEN balances[company_id] ELSE 0

Max(a, b) == IF a >= b THEN a ELSE b

\* current_usage += doc_data.get("quantity", 0) over the documents docs of bag
RECURSIVE SumQuantity(_, _)
SumQuantity(bag, docs) ==
  IF docs = {} THEN 0
  ELSE LET d == CHOOSE x \in docs : TRUE
       IN d.quantity * bag[d] + SumQuantity(bag, docs \ {d})

\* _is_covered_by_plan, lines 586-600: this month's usage of one type, the
\* month found by comparing the timestamp strings
CurrentUsage(company_id, usage_type) ==
  LET current_month_start_str == isoformat(MonthStart(now))
      counted == {d \in DOMAIN usage :
                    /\ d.company_id = company_id
                    /\ d.type = usage_type
                    /\ StrGE(d.timestamp, current_month_start_str)}
  IN SumQuantity(usage, counted)

\* the allowance key of the plan table for a usage type
AllowanceKey(usage_type) ==
  CASE usage_type = "post" -> "monthly_posts"
    [] usage_type = "image_generation" -> "image_generation"
    [] usage_type = "analytics" -> "analytics"
    [] OTHER -> "scheduled_posts"

\* the allowance comparison the wrong way round
IsCoveredByPlan_Flipped(company_id, plan, usage_type, quantity) ==
  IF plan = "free" THEN FALSE
  ELSE usage_type \in DOMAIN rates
         /\ CurrentUsage(company_id, usage_type) + quantity
              >= PlanGet(plan, AllowanceKey(usage_type))

\* _is_covered_by_plan(company_id, plan, usage_type, quantity)
IsCoveredByPlan(company_id, plan, usage_type, quantity) ==
  IF plan = "free" THEN FALSE
  ELSE
    LET current_usage == CurrentUsage(company_id, usage_type)
        Within(key) ==
          IF PlanGet(plan, key) = Unlimited THEN TRUE
          ELSE current_usage + quantity <= PlanGet(plan, key)
    IN CASE usage_type = "post" -> Within("monthly_posts")
         [] usage_type = "image_generation" -> Within("image_generation")
         [] usage_type = "analytics" -> Within("analytics")
         [] usage_type = "scheduled_post" -> Within("scheduled_posts")
         [] OTHER -> FALSE

\* the usage document record_usage writes
UsageEntry(c, plan_covered) ==
  [company_id |-> call[c].company_id,
   type |-> call[c].usage_type,
   quantity |-> call[c].quantity,
   amount |-> RateGet(call[c].usage_type) * call[c].quantity,
   plan_covered |-> plan_covered,
   timestamp |-> isoformat(now),
   at |-> now,
   status |-> "completed"]

\* the transaction document _deduct_from_balance / checkout write
Txn(company_id, type, amount) ==
  [company_id |-> company_id, type |-> type, amount |-> amount]

Add(bag, doc) == bag (+) SetToBag({doc})

\* The store as Scenario B of the specification finds it: t1 is a new tenant
\* on the free plan; t2 is on the starter plan and has recorded 49 posts this
\* month, which record_usage charged to the funds t2 had added.
PriorPosts == 49

PriorEntry ==
  [company_id |-> "t2", type |-> "post", quantity |-> PriorPosts,
   amount |-> RateGet("post") * PriorPosts, plan_covered |-> FALSE,
   timestamp |-> isoformat([mon |-> FirstMonth, day |-> 1, us |-> 0]),
   at |-> [mon |-> FirstMonth, day |-> 1, us |-> 0],
   status |-> "completed"]

\* the state after construction, but for the function call
InitBase ==
  /\ now = [mon |-> FirstMonth, day |-> 2, us |-> 0]
  /\ companies = [t1 |-> "free", t2 |-> "starter"]
  /\ balances = [t2 |-> 0]
  /\ usage = SetToBag({PriorEntry})
  /\ transactions = SetToBag({Txn("t2", "credit", RateGet("post") * PriorPosts),
                              Txn("t2", "debit", RateGet("post") * PriorPosts)})
  /\ call = [c \in Callers |-> Idle]
  /\ products = ("PROD_1" :> (("id" :> "PROD_1") @@ FullProduct("a")))
  /\ schedules = << >>
  /\ db_schedules = << >>
  /\ jobs = << >>
  /\ is_running = FALSE
  /\ threads = << >>
  /\ published = << >>
  /\ metrics = << >>
  /\ posts = << >>
  /\ ret = [value |-> "", id |-> <<"", 0>>, args |-> << >>]
  /\ db_products = << >>
  /\ post_analytics = << >>
  /\ dcall = [s \in Sessions |-> NoDataCall]
  /\ webhook = NoWebhook

Init == InitBase /\ fcall = NoFunctionCall


\* ----------------------------------------------------- record_usage, by step

\* a charge for the part of the request beyond the first unit only
Required_Overage(c) == RateGet(call[c].usage_type) * (call[c].quantity - 1)

\* record_usage, lines 507-508: amount = rate * quantity
Required(c) == RateGet(call[c].usage_type) * call[c].quantity

Finish(r, success, message, id) ==
  [r EXCEPT !.pc = "done",
            !.result = [success |-> success, message |-> message, id |-> id]]

\* the usage of the calendar month of the call, by the entries' instants
MonthUsage(company_id, usage_type) ==
  SumQuantity(usage, {d \in DOMAIN usage :
                        /\ d.company_id = company_id
                        /\ d.type = usage_type
                        /\ DtLE(MonthStart(now), d.at)})

\* step 1 of record_usage as specified: the tenant's own plan has room for
\* quantity more actions of this type in the calendar month
Entitled(company_id, usage_type, quantity) ==
  LET plan == companies[company_id]
      allowance == PlanGet(plan, AllowanceKey(usage_type))
  IN /\ plan # "free"
     /\ usage_type \in DOMAIN rates
     /\ \/ allowance = Unlimited
        \/ MonthUsage(company_id, usage_type) + quantity <= allowance

\* record_usage(company_id, usage_type, quantity) is entered
Enter(c, company_id, usage_type, quantity, handler, platform) ==
  /\ call[c].pc = "idle"
  /\ ~(company_id = TestCompanyId \/ test_account)
  /\ BagCardinality(usage) < MaxUsage
  /\ BagCardinality(transactions) < MaxTxns
  /\ call' = [call EXCEPT ![c] =
       [Idle EXCEPT !.pc = "check_plan",
                    !.company_id = company_id,
                    !.usage_type = usage_type,
                    !.quantity = quantity,
                    !.pre_balance = BalanceOf(company_id),
                    !.pre_usage = BagCardinality(usage),
                    !.pre_txns = BagCardinality(transactions),
                    !.entitled = Entitled(company_id, usage_type, quantity),
                    !.handler = handler,
                    !.platform = platform]]
  /\ UNCHANGED <<now, companies, balances, usage, transactions>>

\* record_usage called on its own
BeginRecordUsage(c, company_id, usage_type, quantity) ==
  Enter(c, company_id, usage_type, quantity, "none", "")

\* _check_sufficient_balance, line 553: covered by the plan means sufficient
CheckPlan(c, ok) ==
  /\ call[c].pc = "check_plan"
  /\ LET r == call[c]
         covered == ok /\ IsCoveredByPlan(r.company_id, None, r.usage_type, r.quantity)
     IN call' = [call EXCEPT ![c] =
          [r EXCEPT !.pc = IF covered THEN "plan_again" ELSE "check_get",
                    !.faulted = r.faulted \/ ~ok,
                    !.current_usage = IF ok THEN CurrentUsage(r.company_id, r.usage_type) ELSE 0,
                    !.month_usage = IF ok THEN MonthUsage(r.company_id, r.usage_type) ELSE 0]]
  /\ UNCHANGED <<now, companies, balances, usage, transactions>>

\* the balance check passing whatever the balance
Compare_Unchecked(r, current_balance) ==
  [r EXCEPT !.pc = "plan_again", !.current_balance = current_balance,
            !.checked = current_balance]

\* lines 558-575 on the balance the check has read
Compare(r, current_balance) ==
  IF current_balance >= RateGet(r.usage_type) * r.quantity
    THEN [r EXCEPT !.pc = "plan_again", !.current_balance = current_balance,
                   !.checked = current_balance]
    ELSE Finish([r EXCEPT !.current_balance = current_balance,
                          !.checked = current_balance],
                FALSE, "Insufficient balance", FALSE)

\* _get_company_balance, line 144: read the balance document
CheckGet(c, ok) ==
  /\ call[c].pc = "check_get"
  /\ LET r == [call[c] EXCEPT !.faulted = @ \/ ~ok]
     IN call' = [call EXCEPT ![c] =
          IF ~ok THEN Compare(r, 0)
          ELSE IF r.company_id \in DOMAIN balances
            THEN Compare(r, balances[r.company_id])
            ELSE [r EXCEPT !.pc = "check_set"]]
  /\ UNCHANGED <<now, companies, balances, usage, transactions>>

\* _get_company_balance, lines 146-154: create the balance document at zero
CheckSet(c, ok) ==
  /\ call[c].pc = "check_set"
  /\ LET r == [call[c] EXCEPT !.faulted = @ \/ ~ok]
     IN /\ call' = [call EXCEPT ![c] = Compare(r, 0)]
        /\ balances' = IF ok THEN (r.company_id :> 0) @@ balances ELSE balances
  /\ UNCHANGED <<now, companies, usage, transactions>>

\* record_usage, lines 473-503: the plan is asked a second time and, when it
\* covers the action, the plan-covered ledger entry is written (two store
\* operations, two steps).  record_usage passes None for the plan, so for
\* quantity >= 1 the answer is no and the second step is never taken.
PlanAgain(c, ok) ==
  /\ call[c].pc \in {"plan_again", "plan_record"}
  /\ LET r == [call[c] EXCEPT !.faulted = @ \/ ~ok]
         covered == ok /\ IsCoveredByPlan(r.company_id, None, r.usage_type, r.quantity)
     IN IF r.pc = "plan_again"
          THEN /\ usage' = usage
               /\ call' = [call EXCEPT ![c] =
                    [r EXCEPT !.pc = IF covered THEN "plan_record" ELSE "deduct_get"]]
          ELSE IF ok
            THEN /\ usage' = Add(usage, UsageEntry(c, TRUE))
                 /\ call' = [call EXCEPT ![c] =
                      Finish([r EXCEPT !.did_usage = TRUE, !.plan_covered = TRUE],
                             TRUE, "Usage recorded (covered by plan)", TRUE)]
            ELSE /\ usage' = usage
                 /\ call' = [call EXCEPT ![c] =
                      Finish(r, FALSE, "Error recording usage", FALSE)]
  /\ UNCHANGED <<now, companies, balances, transactions>>

\* _deduct_from_balance, lines 632-637: read the balance document; without a
\* document to_dict() is None and the read raises
DeductGet(c, ok) ==
  /\ call[c].pc = "deduct_get"
  /\ LET r == [call[c] EXCEPT !.faulted = @ \/ ~ok]
     IN call' = [call EXCEPT ![c] =
          IF ok /\ r.company_id \in DOMAIN balances
            THEN [r EXCEPT !.pc = "deduct_update",
                           !.current_balance = balances[r.company_id]]
            ELSE Finish(r, FALSE, "", FALSE)]
  /\ UNCHANGED <<now, companies, balances, usage, transactions>>

\* the debit without its floor
NewBalance_Unclamped(current_balance, amount) == current_balance - amount

\* new_balance = max(0, current_balance.get("balance", 0) - amount)
NewBalance(current_balance, amount) == Max(0, current_balance - amount)

\* _deduct_from_balance, lines 638-643: write the new balance
DeductUpdate(c, ok) ==
  /\ call[c].pc = "deduct_update"
  /\ LET r == [call[c] EXCEPT !.faulted = @ \/ ~ok]
     IN IF ok
          THEN /\ balances' = [balances EXCEPT ![r.company_id] =
                                 NewBalance(r.current_balance, Required(c))]
               /\ call' = [call EXCEPT ![c] =
                    [r EXCEPT !.pc = "deduct_txn", !.did_update = TRUE,
                              !.clamped = r.current_balance < Required(c)]]
          ELSE /\ balances' = balances
               /\ call' = [call EXCEPT ![c] = Finish(r, FALSE, "", FALSE)]
  /\ UNCHANGED <<now, companies, usage, transactions>>

\* the debit going unrecorded
DeductTxn_Skipped(c, ok) ==
  /\ call[c].pc = "deduct_txn"
  /\ call' = [call EXCEPT ![c].pc = "record"]
  /\ UNCHANGED <<now, companies, balances, usage, transactions>>

\* _deduct_from_balance, lines 645-654: the debit transaction
DeductTxn(c, ok) ==
  /\ call[c].pc = "deduct_txn"
  /\ LET r == [call[c] EXCEPT !.faulted = @ \/ ~ok]
     IN IF ok
          THEN /\ transactions' = Add(transactions, Txn(r.company_id, "debit", Required(c)))
               /\ call' = [call EXCEPT ![c] =
                    [r EXCEPT !.pc = "record", !.did_txn = TRUE]]
          ELSE /\ transactions' = transactions
               /\ call' = [call EXCEPT ![c] = Finish(r, FALSE, "", FALSE)]
  /\ UNCHANGED <<now, companies, balances, usage>>

\* record_usage, lines 516-542: the ledger entry of a charged action
Record(c, ok) ==
  /\ call[c].pc = "record"
  /\ LET r == [call[c] EXCEPT !.faulted = @ \/ ~ok]
     IN IF ok
          THEN /\ usage' = Add(usage, UsageEntry(c, FALSE))
               /\ call' = [call EXCEPT ![c] =
                    Finish([r EXCEPT !.did_usage = TRUE],
                           TRUE, "Usage recorded and deducted from balance", TRUE)]
          ELSE /\ usage' = usage
               /\ call' = [call EXCEPT ![c] =
                    Finish(r, FALSE, "Error recording usage", FALSE)]
  /\ UNCHANGED <<now, companies, balances, transactions>>

\* the caller has the result; the thread leaves record_usage
Return(c) ==
  /\ call[c].pc = "done"
  /\ call[c].handler = "none"
  /\ call' = [call EXCEPT ![c] = Idle]
  /\ UNCHANGED <<now, companies, balances, usage, transactions>>

\* one step of a record_usage call in progress
UsageStep(c, ok) ==
  \/ CheckPlan(c, ok)
  \/ CheckGet(c, ok)
  \/ CheckSet(c, ok)
  \/ PlanAgain(c, ok)
  \/ DeductGet(c, ok)
  \/ DeductUpdate(c, ok)
  \/ DeductTxn(c, ok)
  \/ Record(c, ok)

\* ------------------------------------------- the other ledger operations

NoCall == \A c \in Callers : call[c].pc = "idle"

\* _handle_checkout_completed with metadata company_id and amount:
\* _add_funds_to_balance, then the credit transaction
CheckoutCompleted(company_id, amount) ==
  /\ BagCardinality(transactions) < MaxTxns
  /\ IF company_id = None \/ amount <= 0
       THEN UNCHANGED <<balances, transactions>>
       ELSE /\ balances' = (company_id :> (BalanceOf(company_id) + amount)) @@ balances
            /\ transactions' = Add(transactions, Txn(company_id, "credit", amount))
  /\ UNCHANGED <<now, companies, usage, call>>

MaxBalance == 100   \* a tenant with more than this adds no funds

\* _handle_checkout_completed, lines 356-362: the metadata and its test
CheckoutBegin(company_id, amount) ==
  /\ webhook.pc \in {"idle", "done"}
  /\ BagCardinality(transactions) < MaxTxns
  /\ BalanceOf(company_id) <= MaxBalance
  /\ webhook' = IF company_id = None \/ amount <= 0
                  THEN [NoWebhook EXCEPT !.pc = "done", !.company_id = company_id,
                                         !.amount = amount]
                  ELSE [NoWebhook EXCEPT !.pc = "funds_get", !.company_id = company_id,
                                         !.amount = amount]
  /\ UNCHANGED ledgerVars

\* _add_funds_to_balance, lines 404-409: the balance document is read; an
\* exception makes _add_funds_to_balance return False, which the handler
\* does not look at
FundsGet(ok) ==
  /\ webhook.pc = "funds_get"
  /\ webhook' =
       IF ~ok THEN [webhook EXCEPT !.pc = "credit_txn", !.faulted = TRUE]
       ELSE IF webhook.company_id \in DOMAIN balances
         THEN [webhook EXCEPT !.pc = "funds_update",
                              !.balance = balances[webhook.company_id]]
         ELSE [webhook EXCEPT !.pc = "funds_set"]
  /\ UNCHANGED ledgerVars

\* new_balance = balance.get("balance", 0) + amount
FundsNewBalance(balance, amount) == balance + amount

\* _add_funds_to_balance, lines 410-416: the update of the balance document
FundsUpdate(ok) ==
  /\ webhook.pc = "funds_update"
  /\ IF ok
       THEN /\ balances' = [balances EXCEPT ![webhook.company_id] =
                              FundsNewBalance(webhook.balance, webhook.amount)]
            /\ webhook' = [webhook EXCEPT !.pc = "credit_txn", !.did_update = TRUE,
                             !.written = FundsNewBalance(webhook.balance, webhook.amount)]
       ELSE /\ balances' = balances
            /\ webhook' = [webhook EXCEPT !.pc = "credit_txn", !.faulted = TRUE]
  /\ UNCHANGED <<now, companies, usage, transactions, call>>

\* _add_funds_to_balance, lines 417-422: the balance document is set
FundsSet(ok) ==
  /\ webhook.pc = "funds_set"
  /\ IF ok
       THEN /\ balances' = (webhook.company_id :> webhook.amount) @@ balances
            /\ webhook' = [webhook EXCEPT !.pc = "credit_txn", !.did_update = TRUE,
                                         !.written = webhook.amount]
       ELSE /\ balances' = balances
            /\ webhook' = [webhook EXCEPT !.pc = "credit_txn", !.faulted = TRUE]
  /\ UNCHANGED <<now, companies, usage, transactions, call>>

\* _handle_checkout_completed, lines 367-376: the credit transaction
CreditTxn(ok) ==
  /\ webhook.pc = "credit_txn"
  /\ BagCardinality(transactions) < MaxTxns
  /\ IF ok
       THEN /\ transactions' = Add(transactions,
                                   Txn(webhook.company_id, "credit", webhook.amount))
            /\ webhook' = [webhook EXCEPT !.pc = "done", !.did_txn = TRUE]
       ELSE /\ transactions' = transactions
            /\ webhook' = [webhook EXCEPT !.pc = "done", !.faulted = TRUE]
  /\ UNCHANGED <<now, companies, balances, usage, call>>

\* one step of a _handle_checkout_completed call in progress
CheckoutStep(ok) ==
  \/ FundsGet(ok)
  \/ FundsUpdate(ok)
  \/ FundsSet(ok)
  \/ CreditTxn(ok)

\* _get_company_balance from the payment page: the balance query
GetCompanyBalance(company_id) ==
  /\ balances' = IF company_id \in DOMAIN balances THEN balances
                 ELSE (company_id :> 0) @@ balances
  /\ UNCHANGED <<now, companies, usage, transactions, call>>

\* the wall clock moves on: to the next microsecond, day or month
Tick ==
  /\ \E dt \in DateTimes :
       /\ dt # now
       /\ DtLE(now, dt)
       /\ \A mid \in DateTimes : DtLE(now, mid) /\ DtLE(mid, dt) => mid \in {now, dt}
       /\ now' = dt
  /\ UNCHANGED <<companies, balances, usage, transactions, call>>


\* ------------------------------------------------ publishing and scheduling

MaxSchedules == 1   \* entries in AdScheduler.schedules, and in the store
MaxJobs == 2        \* jobs registered with the schedule library
MaxRuns == 2        \* times one job comes due
MaxPosts == 2       \* posts made on the platforms
MaxThreads == 2     \* run_scheduler threads started
MaxDocs == 1        \* documents of a collection, in the calls of the DataAccessManager

\* "PROD_1" is a product of the ProductManager file; "fs_prod" is a product
\* of the document store, which the pages list (get_company_products)
ProductIds == {"PROD_1", "fs_prod"}
PageProduct == "fs_prod"

\* Config.platforms, and the platforms whose client the SocialMediaHandler
\* built: only the Twitter credentials are set
ConfigPlatforms == {"facebook", "twitter", "instagram", "linkedin"}
Clients == {"twitter"}
Platforms == {"twitter", "facebook"}
ApiPlatforms == {"twitter", "facebook", "tiktok"}

\* schedule_time: "now", "daily", or "date:..." with the date after or not
\* after the wall clock; recurrence: "once" or "daily"
ScheduleTimes == {"now", "daily", "date_future", "date_past"}
Recurrences == {"once", "daily"}

\* post_ad with no error message on a failure
PostAd_Silent(platform, vendor_ok, post_id) ==
  LET result == [success |-> FALSE, post_id |-> 0, platforms |-> << >>, errors |-> << >>]
  IN  IF platform \in Clients /\ vendor_ok
        THEN [result EXCEPT !.post_id = post_id, !.success = TRUE]
        ELSE result

\* SocialMediaHandler.post_ad; vendor_ok: the platform call returned an id.
\* A post id of 0 stands for None.
PostAd(platform, vendor_ok, post_id) ==
  LET result == [success |-> FALSE, post_id |-> 0, platforms |-> << >>, errors |-> << >>]
  IN  IF platform \notin Clients
        THEN result @@ [error |-> "not configured"]
        ELSE IF vendor_ok
               THEN [result EXCEPT !.post_id = post_id, !.success = TRUE]
               ELSE result @@ [error |-> "Failed to post"]

\* AnalyticsManager.collect_metrics reads these keys of the post result
CollectMetricsRaises(post_result) ==
  ~({"platform", "post_id", "product_id"} \subseteq DOMAIN post_result)

\* AdScheduler.create_post: its result
CreatePost(product_id, platform, content_ok, vendor_ok, post_id) ==
  IF product_id \notin DOMAIN products
    THEN [success |-> FALSE, error |-> "Product not found"]
    ELSE IF ~content_ok
           THEN [success |-> FALSE, error |-> "content"]
           ELSE LET post_result == PostAd(platform, vendor_ok, post_id)
                IN  IF post_result.success /\ CollectMetricsRaises(post_result)
                      THEN [success |-> FALSE, error |-> "'platform'"]
                      ELSE post_result

\* AdScheduler.create_post: whether it posted on the platform
CreatePostPublishes(product_id, platform, content_ok, vendor_ok) ==
  /\ product_id \in DOMAIN products
  /\ content_ok
  /\ PostAd(platform, vendor_ok, 1).success

\* AdScheduler.create_post: how far it went.  "published": the platform
\* took the post
CreatePostOutcome(product_id, platform, content_ok, vendor_ok) ==
  IF product_id \notin DOMAIN products THEN "no_product"
  ELSE IF ~content_ok THEN "content_error"
  ELSE IF platform \notin Clients THEN "not_configured"
  ELSE IF ~vendor_ok THEN "vendor_failed"
  ELSE "published"

\* AnalyticsManager.collect_metrics: the records after the call
CollectMetrics(post_result) ==
  IF post_result.success /\ ~CollectMetricsRaises(post_result)
    THEN Append(metrics, [post_id |-> post_result.post_id,
                          platform |-> post_result.platform,
                          product_id |-> post_result.product_id])
    ELSE metrics

\* AdScheduler.create_post, lines 75-76: the metrics records after the call
CreatePostMetrics(product_id, platform, content_ok, vendor_ok, post_id) ==
  IF product_id \in DOMAIN products /\ content_ok
    THEN CollectMetrics(PostAd(platform, vendor_ok, post_id))
    ELSE metrics

\* the error of the post result dropped
ErrorOf_Dropped(post_result) == ""

\* post_result.get("error", "Unknown error")
ErrorOf(post_result) ==
  IF "error" \in DOMAIN post_result THEN post_result.error ELSE "Unknown error"

\* a post made on a platform.  admitted: the record_usage call made for it,
\* if any, returned success
Post(by, schedule_id, platform, admitted) ==
  [by |-> by, schedule_id |-> schedule_id, platform |-> platform, admitted |-> admitted]

NoId == <<"", 0>>

\* the job closure of _add_to_schedule, as the schedule library holds it
Job(schedule_id, product_id, platform, admitted) ==
  [schedule_id |-> schedule_id, product_id |-> product_id, platform |-> platform,
   due |-> FALSE, runs |-> 0, admitted |-> admitted]

\* _add_to_schedule: the jobs it registers before it returns or raises
AddToSchedule(schedule_id, product_id, platform, schedule_time, admitted) ==
  IF schedule_time \in {"daily", "date_future"}
    THEN << Job(schedule_id, product_id, platform, admitted) >>
    ELSE << >>

\* the page's test of the record_usage result, ad_pages.py lines 394 and 701
Blocked(usage_result) ==
  "error" \in DOMAIN usage_result /\ ~usage_result.success

\* -- the page handlers

\* "Post Now" with content at hand, ad_pages.py lines 390-392: record_usage
PostNow(c, company_id, platform) ==
  /\ Enter(c, company_id, "post", 1, "post_now", platform)
  /\ UNCHANGED schedVars

\* lines 394-425: the test of the result, post_ad, then record_post
PostNowGate(c, vendor_ok) ==
  /\ call[c].pc = "done"
  /\ call[c].handler = "post_now"
  /\ Len(published) < MaxPosts
  /\ LET post_result == PostAd(call[c].platform, vendor_ok, Len(published) + 1)
     IN  IF ~Blocked(call[c].result) /\ post_result.success
           THEN /\ published' = Append(published,
                     Post("manual", NoId, call[c].platform, call[c].result.success))
                /\ posts' = Append(posts, [company_id |-> call[c].company_id,
                                          platform |-> call[c].platform])
           ELSE UNCHANGED <<published, posts>>
  /\ call' = [call EXCEPT ![c] = Idle]
  /\ UNCHANGED <<now, companies, balances, usage, transactions>>
  /\ UNCHANGED <<dataVars, products, schedules, db_schedules, jobs, is_running, threads,
                 metrics, ret>>

\* "Schedule Post", ad_pages.py lines 697-699: record_usage
SchedulePostTab(c, company_id, platform) ==
  /\ Enter(c, company_id, "scheduled_post", 1, "schedule", platform)
  /\ UNCHANGED schedVars

\* lines 701-733: the test of the result, data_access.add_schedule, then
\* scheduler._add_to_schedule with the id of the stored document
SchedulePostTabGate(c, schedule_time, recurrence, ok) ==
  /\ call[c].pc = "done"
  /\ call[c].handler = "schedule"
  /\ Len(jobs) < MaxJobs
  /\ Cardinality(DOMAIN db_schedules) < MaxSchedules
  /\ LET schedule_id == <<"doc", Cardinality(DOMAIN db_schedules) + 1>>
         entry == [company_id |-> call[c].company_id, status |-> "scheduled"]
     IN  IF Blocked(call[c].result) \/ ~ok
           THEN UNCHANGED <<db_schedules, jobs>>
           ELSE /\ db_schedules' = (schedule_id :> entry) @@ db_schedules
                /\ jobs' = jobs \o AddToSchedule(schedule_id, PageProduct, call[c].platform,
                                                 schedule_time, call[c].result.success)
  /\ call' = [call EXCEPT ![c] = Idle]
  /\ UNCHANGED <<now, companies, balances, usage, transactions>>
  /\ UNCHANGED <<dataVars, products, schedules, is_running, threads, published, metrics, posts, ret>>

\* "Cancel" of the scheduled posts tab, ad_pages.py lines 911-915
CancelInPage(schedule_id) ==
  /\ schedule_id \in DOMAIN db_schedules
  /\ db_schedules' = [db_schedules EXCEPT ![schedule_id].status = "cancelled"]
  /\ UNCHANGED ledgerVars
  /\ UNCHANGED <<dataVars, products, schedules, jobs, is_running, threads, published, metrics, posts, ret>>

\* -- AdScheduler

\* what schedule_post and cancel_schedule return
Returns(value, id) == [value |-> value, id |-> id, args |-> << >>]

\* what schedule_post returns, with the product and the platform it was called for
ReturnsTo(product_id, platform, value, id) ==
  [value |-> value, id |-> id, args |-> <<product_id, platform>>]

\* _add_to_schedule raises: schedule_time.split(":")[1] is no time of day
AddToScheduleRaises(schedule_time, recurrence) ==
  /\ schedule_time # "date_past"
  /\ recurrence \in {"daily", "weekly"}

\* no schedule time taken as a request to post at once
Immediate_Never(schedule_time) == FALSE

\* schedule_post, line 99: the post is to be made at once
Immediate(schedule_time) == schedule_time = "now"

\* schedule_post without its tests of the product and the platform
SchedulePost_Unvalidated(product_id, platform, schedule_time, recurrence, content_ok, vendor_ok) ==
  /\ Cardinality(DOMAIN schedules) < MaxSchedules
  /\ schedules' = (<<"SCH", Cardinality(DOMAIN schedules) + 1>> :>
                     [product_id |-> product_id, platform |-> platform,
                      schedule_time |-> schedule_time, recurrence |-> recurrence,
                      status |-> "scheduled", last_run |-> << >>,
                      last_post_id |-> 0, last_error |-> ""]) @@ schedules
  /\ ret' = ReturnsTo(product_id, platform, "schedule_id", <<"SCH", Cardinality(DOMAIN schedules) + 1>>)
  /\ UNCHANGED ledgerVars
  /\ UNCHANGED <<dataVars, products, db_schedules, jobs, is_running, threads, published,
                 metrics, posts>>

\* schedule_post
SchedulePost(product_id, platform, schedule_time, recurrence, content_ok, vendor_ok) ==
  LET schedule_id == <<"SCH", Cardinality(DOMAIN schedules) + 1>>
      schedule_entry == [product_id |-> product_id, platform |-> platform,
                         schedule_time |-> schedule_time, recurrence |-> recurrence,
                         status |-> "scheduled", last_run |-> << >>,
                         last_post_id |-> 0, last_error |-> ""]
      post_result == CreatePost(product_id, platform, content_ok, vendor_ok,
                                Len(published) + 1)
  IN  /\ IF product_id \notin DOMAIN products
           THEN /\ ret' = ReturnsTo(product_id, platform, "Product not found", NoId)
                /\ UNCHANGED <<schedules, jobs, published, metrics>>
           ELSE IF platform \notin ConfigPlatforms
           THEN /\ ret' = ReturnsTo(product_id, platform, "Platform not configured", NoId)
                /\ UNCHANGED <<schedules, jobs, published, metrics>>
           ELSE IF Immediate(schedule_time)
           THEN /\ Len(published) < MaxPosts
                /\ published' =
                     IF CreatePostPublishes(product_id, platform, content_ok, vendor_ok)
                       THEN Append(published, Post("now", NoId, platform, FALSE))
                       ELSE published
                /\ metrics' = CreatePostMetrics(product_id, platform, content_ok, vendor_ok,
                                                Len(published) + 1)
                /\ ret' = IF post_result.success
                            THEN ReturnsTo(product_id, platform, "Posted successfully", NoId)
                            ELSE ReturnsTo(product_id, platform, "Failed to post", NoId)
                /\ UNCHANGED <<schedules, jobs>>
           ELSE /\ Cardinality(DOMAIN schedules) < MaxSchedules
                /\ Len(jobs) < MaxJobs
                /\ schedules' = (schedule_id :> schedule_entry) @@ schedules
                /\ jobs' = jobs \o AddToSchedule(schedule_id, product_id, platform,
                                                 schedule_time, FALSE)
                /\ ret' = IF AddToScheduleRaises(schedule_time, recurrence)
                            THEN ReturnsTo(product_id, platform, "Error", NoId)
                            ELSE ReturnsTo(product_id, platform, "schedule_id", schedule_id)
                /\ UNCHANGED <<published, metrics>>
      /\ UNCHANGED ledgerVars
      /\ UNCHANGED <<dataVars, products, db_schedules, is_running, threads, posts>>

\* cancel_schedule
CancelSchedule(schedule_id) ==
  /\ IF schedule_id \notin DOMAIN schedules
       THEN /\ ret' = Returns("False", schedule_id)
            /\ UNCHANGED schedules
       ELSE /\ schedules' = [schedules EXCEPT ![schedule_id].status = "cancelled"]
            /\ ret' = Returns("True", schedule_id)
  /\ UNCHANGED ledgerVars
  /\ UNCHANGED <<dataVars, products, db_schedules, jobs, is_running, threads, published,
                 metrics, posts>>

\* a run_scheduler thread.  queue: the due jobs run_pending still has to run;
\* post_result: what create_post returned to the job; cancelled: the entry
\* of the job was cancelled when the job began; outcome: how far the
\* create_post of the job went; posted: the id of the post it made, or 0
Thread == [pc |-> "begin", queue |-> << >>, post_result |-> [success |-> FALSE],
           cancelled |-> FALSE, outcome |-> "", posted |-> 0]

\* start
Start ==
  /\ Len(threads) < MaxThreads
  /\ threads' = IF is_running THEN threads ELSE Append(threads, Thread)
  /\ UNCHANGED ledgerVars
  /\ UNCHANGED <<dataVars, products, schedules, db_schedules, jobs, is_running, published, metrics, posts, ret>>

\* run_scheduler, line 237
ThreadBegin(t) ==
  /\ threads[t].pc = "begin"
  /\ is_running' = TRUE
  /\ threads' = [threads EXCEPT ![t].pc = "loop"]
  /\ UNCHANGED ledgerVars
  /\ UNCHANGED <<dataVars, products, schedules, db_schedules, jobs, published, metrics, posts, ret>>

\* stop
Stop ==
  /\ is_running' = FALSE
  /\ UNCHANGED ledgerVars
  /\ UNCHANGED <<dataVars, products, schedules, db_schedules, jobs, threads, published, metrics, posts, ret>>

\* the interval of a job elapses: should_run becomes true
TimerElapses(j) ==
  /\ ~jobs[j].due
  /\ jobs[j].runs < MaxRuns
  /\ jobs' = [jobs EXCEPT ![j].due = TRUE]
  /\ UNCHANGED ledgerVars
  /\ UNCHANGED <<dataVars, products, schedules, db_schedules, is_running, threads, published, metrics, posts, ret>>

RECURSIVE DueJobs(_)
\* the jobs that should run, in the order of registration, from job j on
DueJobs(j) ==
  IF j > Len(jobs) THEN << >>
  ELSE (IF jobs[j].due THEN <<j>> ELSE << >>) \o DueJobs(j + 1)

\* the loop test of run_scheduler and the start of run_pending
RunPending(t) ==
  /\ threads[t].pc = "loop"
  /\ IF ~is_running
       THEN threads' = [threads EXCEPT ![t].pc = "exited"]
       ELSE /\ DueJobs(1) # << >>
            /\ threads' = [threads EXCEPT ![t].pc = "create", ![t].queue = DueJobs(1)]
  /\ UNCHANGED ledgerVars
  /\ UNCHANGED <<dataVars, products, schedules, db_schedules, jobs, is_running, published, metrics, posts, ret>>

\* the job, line 144: create_post
JobCreate(t, content_ok, vendor_ok) ==
  /\ threads[t].pc = "create"
  /\ Len(published) < MaxPosts
  /\ LET job == jobs[Head(threads[t].queue)]
         post_result == CreatePost(job.product_id, job.platform, content_ok, vendor_ok,
                                   Len(published) + 1)
     IN  /\ published' =
              IF CreatePostPublishes(job.product_id, job.platform, content_ok, vendor_ok)
                THEN Append(published, Post("job", job.schedule_id, job.platform, job.admitted))
                ELSE published
         /\ metrics' = CreatePostMetrics(job.product_id, job.platform, content_ok,
                                         vendor_ok, Len(published) + 1)
         /\ threads' = [threads EXCEPT
              ![t].pc = "record",
              ![t].post_result = post_result,
              ![t].cancelled = /\ job.schedule_id \in DOMAIN schedules
                               /\ schedules[job.schedule_id].status = "cancelled",
              ![t].outcome = CreatePostOutcome(job.product_id, job.platform,
                                               content_ok, vendor_ok),
              ![t].posted = IF CreatePostPublishes(job.product_id, job.platform,
                                                   content_ok, vendor_ok)
                              THEN Len(published) + 1 ELSE 0]
  /\ UNCHANGED ledgerVars
  /\ UNCHANGED <<dataVars, products, schedules, db_schedules, jobs, is_running, posts, ret>>

\* the job, lines 146-161: the outcome goes to self.schedules[schedule_id];
\* a KeyError there is raised again by the handler of the job and leaves
\* run_pending and run_scheduler
JobRecord(t) ==
  /\ threads[t].pc = "record"
  /\ LET j == Head(threads[t].queue)
         schedule_id == jobs[j].schedule_id
         post_result == threads[t].post_result
         rest == Tail(threads[t].queue)
     IN  IF schedule_id \notin DOMAIN schedules
           THEN /\ threads' = [threads EXCEPT ![t].pc = "dead"]
                /\ UNCHANGED <<schedules, jobs>>
           ELSE /\ schedules' = [schedules EXCEPT ![schedule_id] =
                     IF post_result.success
                       THEN [@ EXCEPT !.last_run = isoformat(now),
                                      !.last_post_id = post_result.post_id,
                                      !.status = "completed"]
                       ELSE [@ EXCEPT !.last_error = ErrorOf(post_result),
                                      !.status = "failed"]]
                /\ jobs' = [jobs EXCEPT ![j].due = FALSE, ![j].runs = @ + 1]
                /\ threads' = [threads EXCEPT
                     ![t].pc = IF rest = << >> THEN "loop" ELSE "create",
                     ![t].queue = rest]
  /\ UNCHANGED ledgerVars
  /\ UNCHANGED <<dataVars, products, db_schedules, is_running, published, metrics, posts, ret>>

\* ---------------------------------------------------------- specifications

vars == <<now, companies, balances, usage, transactions, call,
          dataVars, products, schedules, db_schedules, jobs, is_running, threads,
          published, metrics, posts, ret>>

\* Requests served one after the other; any store operation of record_usage
\* may raise.
LedgerStep ==
  \/ \E c \in Callers, company_id \in Tenants, usage_type \in UsageTypes,
        quantity \in Quantities :
       NoCall /\ BeginRecordUsage(c, company_id, usage_type, quantity)
  \/ \E c \in Callers, ok \in BOOLEAN : UsageStep(c, ok)
  \/ \E c \in Callers : Return(c)
  \/ \E company_id \in Tenants \cup {None}, amount \in FundAmounts :
       NoCall /\ CheckoutCompleted(company_id, amount)
  \/ \E company_id \in Tenants : NoCall /\ GetCompanyBalance(company_id)
  \/ Tick

NextLedger == LedgerStep /\ UNCHANGED schedVars

SpecLedger == Init /\ [][NextLedger]_vars

\* Two request threads inside record_usage at once, each charging posts; the
\* store does not fail and the calls fall within one instant of the clock.
LedgerConcStep ==
  \/ \E c \in Callers, company_id \in Tenants, quantity \in Quantities :
       BeginRecordUsage(c, company_id, "post", quantity)
  \/ \E c \in Callers : UsageStep(c, TRUE)
  \/ \E c \in Callers : Return(c)
  \/ \E company_id \in Tenants \cup {None}, amount \in FundAmounts :
       CheckoutCompleted(company_id, amount)
  \/ \E company_id \in Tenants : GetCompanyBalance(company_id)

NextLedgerConc == LedgerConcStep /\ UNCHANGED schedVars

SpecLedgerConc == Init /\ [][NextLedgerConc]_vars

\* what _handle_checkout_completed leaves alone besides the ledger
FundsFrame ==
  UNCHANGED <<db_products, post_analytics, dcall, fcall, products, schedules, db_schedules,
              jobs, is_running, threads, published, metrics, posts, ret>>

\* The webhook thread inside _handle_checkout_completed while a request
\* thread is inside record_usage or queries the balance; the store answers
\* or raises in the webhook's operations.
NextFunds ==
  \/ \E company_id \in Tenants \cup {None}, amount \in FundAmounts :
       CheckoutBegin(company_id, amount) /\ FundsFrame
  \/ \E ok \in BOOLEAN : CheckoutStep(ok) /\ FundsFrame
  \/ \E company_id \in Tenants, quantity \in Quantities :
       BeginRecordUsage("c1", company_id, "post", quantity) /\ UNCHANGED schedVars
  \/ UsageStep("c1", TRUE) /\ UNCHANGED schedVars
  \/ Return("c1") /\ UNCHANGED schedVars
  \/ \E company_id \in Tenants : GetCompanyBalance(company_id) /\ UNCHANGED schedVars

SpecFunds == Init /\ [][NextFunds]_vars

\* The same two threads with a store that answers every operation.
NextFundsSound ==
  \/ \E company_id \in Tenants, amount \in FundAmounts :
       CheckoutBegin(company_id, amount) /\ FundsFrame
  \/ CheckoutStep(TRUE) /\ FundsFrame
  \/ \E company_id \in Tenants, quantity \in Quantities :
       BeginRecordUsage("c1", company_id, "post", quantity) /\ UNCHANGED schedVars
  \/ UsageStep("c1", TRUE) /\ UNCHANGED schedVars
  \/ Return("c1") /\ UNCHANGED schedVars

SpecFundsSound == Init /\ [][NextFundsSound]_vars


\* The pages: the "Post Now" and "Schedule Post" handlers, served one after
\* the other, and the payment webhook; the store does not fail inside
\* record_usage.
NextPages ==
  \/ \E c \in Callers, company_id \in Tenants, platform \in Platforms :
       NoCall /\ PostNow(c, company_id, platform)
  \/ \E c \in Callers, vendor_ok \in BOOLEAN : PostNowGate(c, vendor_ok)
  \/ \E c \in Callers, company_id \in Tenants, platform \in Platforms :
       NoCall /\ SchedulePostTab(c, company_id, platform)
  \/ \E c \in Callers, schedule_time \in ScheduleTimes \ {"now"},
        recurrence \in Recurrences, ok \in BOOLEAN :
       SchedulePostTabGate(c, schedule_time, recurrence, ok)
  \/ \E c \in Callers : UsageStep(c, TRUE) /\ UNCHANGED schedVars
  \/ \E company_id \in Tenants, amount \in FundAmounts :
       NoCall /\ CheckoutCompleted(company_id, amount) /\ UNCHANGED schedVars
  \/ \E schedule_id \in DOMAIN db_schedules : CancelInPage(schedule_id)

SpecPages == Init /\ [][NextPages]_vars

\* -- functions that read no state

\* what a call of such a function leaves alone
FunctionFrame ==
  /\ UNCHANGED ledgerVars
  /\ UNCHANGED <<db_products, post_analytics, dcall, webhook, products, schedules,
                 db_schedules, jobs, is_running, threads, published, metrics, posts, ret>>

Calling(fn) == fcall.pc = "call" /\ fcall.fn = fn

Called(fn, args) == [fn |-> fn, args |-> args, result |-> << >>, pc |-> "call"]

\* -- SocialMediaHandler.post_to_twitter: the status text (lines 163-186)

\* A string is the sequence of the pieces it was put together from: the
\* copy, a hashtag, the "\n" and the " " between them, each with the number
\* of its characters.
Piece(kind, len) == [kind |-> kind, len |-> len]

\* len(string)
RECURSIVE StrLen(_)
StrLen(string) ==
  IF string = << >> THEN 0 ELSE Head(string).len + StrLen(Tail(string))

\* " ".join(hashtags)
RECURSIVE Join(_)
Join(hashtags) ==
  IF hashtags = << >> THEN << >>
  ELSE IF Len(hashtags) = 1 THEN << Head(hashtags) >>
  ELSE << Head(hashtags), Piece(" ", 1) >> \o Join(Tail(hashtags))

\* Twitter character limit
TwitterLimit == 280

\* one character more than the limit leaves
AvailableChars_Wide(text) == TwitterLimit - StrLen(text) + 1

\* available_chars = 280 - len(text) - 1
AvailableChars(text) == TwitterLimit - StrLen(text) - 1

\* lines 178-183: the loop over the hashtags, from the hashtags left to look
\* at, with truncated_hashtags and current_length as they are
RECURSIVE Truncate(_, _, _, _)
Truncate(hashtags, available_chars, truncated_hashtags, current_length) ==
  IF hashtags = << >> THEN truncated_hashtags
  ELSE LET tag == Head(hashtags)
       IN  IF current_length + tag.len + 1 <= available_chars
             THEN Truncate(Tail(hashtags), available_chars,
                           Append(truncated_hashtags, tag), current_length + tag.len + 1)
             ELSE truncated_hashtags

\* lines 163-186: the text that is handed to update_status
StatusText(ad_content) ==
  LET text == << ad_content.copy >>
      hashtags == ad_content.hashtags
  IN  IF hashtags = << >> THEN text
      ELSE IF StrLen(text) + StrLen(Join(hashtags)) + 1 <= TwitterLimit
        THEN text \o << Piece("\n", 1) >> \o Join(hashtags)
      ELSE LET truncated_hashtags == Truncate(hashtags, AvailableChars(text), << >>, 0)
           IN  IF truncated_hashtags # << >>
                 THEN text \o << Piece("\n", 1) >> \o Join(truncated_hashtags)
                 ELSE text

MaxTags == 3
CopyLens == {0, 140, 270, 274, 279, 280, 285}
TagLens == {2, 4, 5, 9}

\* the lists of up to MaxTags hashtags
TagLists ==
  UNION { [1..n -> {Piece("tag", len) : len \in TagLens}] : n \in 0..MaxTags }

AdContents ==
  [copy : {Piece("copy", len) : len \in CopyLens}, hashtags : TagLists]

PostToTwitter ==
  /\ Calling("post_to_twitter")
  /\ fcall' = [fcall EXCEPT !.result = StatusText(fcall.args), !.pc = "done"]
  /\ FunctionFrame

InitTwitter ==
  /\ InitBase
  /\ fcall \in {Called("post_to_twitter", ad_content) : ad_content \in AdContents}

SpecTwitter == InitTwitter /\ [][PostToTwitter]_vars

\* -- SocialMediaHandler.post_ad as a call of its own (lines 375-419)

MaxPostId == 3

\* what the vendor behind post_to_<platform> does: it gives an id, gives
\* none, gives an empty one, or raises
VendorOutcomes == {"id", "none", "empty", "raises"}

\* post_to_<platform>: the id of the vendor, or None (0) from the except
\* clause and the early returns; an empty id is not truthy in post_ad
PostTo(outcome, post_id) == IF outcome = "id" THEN post_id ELSE 0

\* the ad contents of the content generator and of the ad pages: both set
\* the platform
PostAdCalls ==
  [platform : Platforms, copy : {Piece("copy", len) : len \in CopyLens},
   vendor : VendorOutcomes, post_id : 1..MaxPostId]

PostAdCall ==
  /\ Calling("post_ad")
  /\ LET post_id == PostTo(fcall.args.vendor, fcall.args.post_id)
     IN  fcall' = [fcall EXCEPT !.result = <<PostAd(fcall.args.platform, post_id # 0, post_id)>>,
                                !.pc = "done"]
  /\ FunctionFrame

InitPostAd ==
  /\ InitBase
  /\ fcall \in {Called("post_ad", ad_content) : ad_content \in PostAdCalls}

SpecPostAd == InitPostAd /\ [][PostAdCall]_vars

\* -- AnalyticsManager.get_best_performing_platform (lines 217-271)

MaxMetrics == 3
AnalysisDays == 30

\* the engagement a collect_metrics record may hold
Engagements ==
  { [impressions |-> 10, likes |-> 2], [clicks |-> 6, retweets |-> 2],
    [impressions |-> 0], [likes |-> 5, comments |-> 1, shares |-> 1] }

\* analytics_data in its order: the platform of a record, its age in days
\* and its engagement
AnalyticsDatas ==
  UNION { [1..n -> [platform : Platforms, age : {1, 31}, engagement : Engagements]] :
            n \in 0..MaxMetrics }

InWindow(record) == record.age <= AnalysisDays

\* analyze_performance, lines 128-146: the records of the last days
FilteredData(analytics_data) == SelectSeq(analytics_data, InWindow)

\* the keys of performance["platforms"] in the order of insertion
RECURSIVE PlatformOrder(_)
PlatformOrder(filtered_data) ==
  IF filtered_data = << >> THEN << >>
  ELSE LET n == Len(filtered_data)
           before == PlatformOrder(SubSeq(filtered_data, 1, n - 1))
           platform == filtered_data[n].platform
       IN  IF \E i \in DOMAIN before : before[i] = platform
             THEN before ELSE Append(before, platform)

\* platform_performance[platform]["post_count"]
PostCount(filtered_data, platform) ==
  Cardinality({i \in DOMAIN filtered_data : filtered_data[i].platform = platform})

\* platform_performance[platform]["engagement"].get(metric, 0)
RECURSIVE Engagement(_, _, _)
Engagement(filtered_data, platform, metric) ==
  IF filtered_data = << >> THEN 0
  ELSE LET record == Head(filtered_data)
       IN  (IF record.platform = platform /\ metric \in DOMAIN record.engagement
              THEN record.engagement[metric] ELSE 0)
           + Engagement(Tail(filtered_data), platform, metric)

\* the score of a platform, lines 238-254, as the fraction num / den of
\* integers: ten times the weighted sum of the totals, over the post count
Score(filtered_data, platform) ==
  [num |-> 3 * Engagement(filtered_data, platform, "impressions")
           + 2 * Engagement(filtered_data, platform, "likes")
           + 3 * Engagement(filtered_data, platform, "comments")
           + 4 * Engagement(filtered_data, platform, "clicks")
           + 5 * (Engagement(filtered_data, platform, "shares")
                  + Engagement(filtered_data, platform, "retweets")),
   den |-> 10 * PostCount(filtered_data, platform)]

\* the comparison letting a later platform of equal score win
Exceeds_OrEqual(score, best_score) == score.num * best_score.den >= best_score.num * score.den

\* data["score"] > best_score
Exceeds(score, best_score) == score.num * best_score.den > best_score.num * score.den

\* lines 257-264: the loop over platform_scores
RECURSIVE FindBest(_, _, _, _)
FindBest(filtered_data, order, best_platform, best_score) ==
  IF order = << >> THEN best_platform
  ELSE LET score == Score(filtered_data, Head(order))
       IN  IF Exceeds(score, best_score)
             THEN FindBest(filtered_data, Tail(order), Head(order), score)
             ELSE FindBest(filtered_data, Tail(order), best_platform, best_score)

BestPerformingPlatform(analytics_data) ==
  LET filtered_data == FilteredData(analytics_data)
  IN  FindBest(filtered_data, PlatformOrder(filtered_data), None, [num |-> 0 - 1, den |-> 1])

GetBestPerformingPlatform ==
  /\ Calling("get_best_performing_platform")
  /\ fcall' = [fcall EXCEPT !.result = <<BestPerformingPlatform(fcall.args)>>, !.pc = "done"]
  /\ FunctionFrame

InitAnalytics ==
  /\ InitBase
  /\ fcall \in {Called("get_best_performing_platform", analytics_data) :
                  analytics_data \in AnalyticsDatas}

SpecAnalytics == InitAnalytics /\ [][GetBestPerformingPlatform]_vars

\* -- DataAccessManager (src/utils/data_access.py)

\* a document of the products collection, and what is left of a deleted one
\* (the store never gives the id of a deleted document to a new one)
Document(fields) == [exists |-> TRUE] @@ fields
Deleted == [exists |-> FALSE]

ProductExists(product_id) ==
  product_id \in DOMAIN db_products /\ db_products[product_id].exists

\* the test of every guarded operation passes for every caller
Owns_Anyone(document, company_id) == TRUE

\* document.get("company_id") != company_id, negated
Owns(document, company_id) == document.company_id = company_id

\* product_data["company_id"] = company_id, schedule_data["company_id"] = company_id
Stamp(data, company_id) == [company_id |-> company_id] @@ data

\* what a caller may pass as product_data or schedule_data
ProductData == [company_id : Tenants, v : {2}]
ScheduleData == [company_id : Tenants, status : {"cancelled"}]

Free(s) == dcall[s].pc # "write"

\* the call of session s has returned result
Returned(s, op, id, company_id, result) ==
  [dcall EXCEPT ![s] = [NoDataCall EXCEPT !.op = op, !.id = id, !.company_id = company_id,
                                          !.pc = "done", !.result = result]]

\* the call of session s has logged "Attempted ... by unauthorized company"
\* and returned result
Refused(s, op, id, company_id, result) ==
  [dcall EXCEPT ![s] = [NoDataCall EXCEPT !.op = op, !.id = id, !.company_id = company_id,
                                          !.pc = "done", !.result = result,
                                          !.warned = TRUE]]

\* the call of session s has passed its test and is about to write
Passed(s, op, id, company_id, data) ==
  [dcall EXCEPT ![s] = [NoDataCall EXCEPT !.op = op, !.id = id, !.company_id = company_id,
                                          !.data = data, !.pc = "write"]]

Writing(s, op) == dcall[s].pc = "write" /\ dcall[s].op = op

\* get_product.  ok: the store answers
GetProduct(s, product_id, company_id, ok) ==
  /\ Free(s)
  /\ dcall' = IF ~ok \/ ~ProductExists(product_id)
                THEN Returned(s, "get_product", product_id, company_id, "None")
              ELSE IF ~Owns(db_products[product_id], company_id)
                THEN Refused(s, "get_product", product_id, company_id, "None")
              ELSE Returned(s, "get_product", product_id, company_id, "product")
  /\ UNCHANGED <<db_products, post_analytics, db_schedules, posts>>

\* add_product
AddProduct(s, product_data, company_id) ==
  /\ Free(s)
  /\ Cardinality(DOMAIN db_products) < MaxDocs
  /\ LET product_id == Cardinality(DOMAIN db_products) + 1
     IN  /\ db_products' = (product_id :> Document(Stamp(product_data, company_id)))
                             @@ db_products
         /\ dcall' = Returned(s, "add_product", product_id, company_id, "id")
  /\ UNCHANGED <<post_analytics, db_schedules, posts>>

\* update_product, lines 95-107: the read and the test
UpdateProductCheck(s, product_id, product_data, company_id, ok) ==
  /\ Free(s)
  /\ dcall' = IF ~ok \/ ~ProductExists(product_id)
                THEN Returned(s, "update_product", product_id, company_id, "False")
              ELSE IF ~Owns(db_products[product_id], company_id)
                THEN Refused(s, "update_product", product_id, company_id, "False")
              ELSE Passed(s, "update_product", product_id, company_id,
                          Stamp(product_data, company_id))
  /\ UNCHANGED <<db_products, post_analytics, db_schedules, posts>>

\* update_product, lines 109-116: the update, which raises for a document
\* that is no longer there
UpdateProductWrite(s, ok) ==
  /\ Writing(s, "update_product")
  /\ LET product_id == dcall[s].id
     IN  IF ~ok \/ ~ProductExists(product_id)
           THEN /\ dcall' = Returned(s, "update_product", dcall[s].id, dcall[s].company_id, "False")
                /\ UNCHANGED db_products
           ELSE /\ db_products' = [db_products EXCEPT
                                     ![product_id] = dcall[s].data @@ db_products[product_id]]
                /\ dcall' = Returned(s, "update_product", dcall[s].id, dcall[s].company_id, "True")
  /\ UNCHANGED <<post_analytics, db_schedules, posts>>

\* delete_product, lines 122-134: the read and the test
DeleteProductCheck(s, product_id, company_id, ok) ==
  /\ Free(s)
  /\ dcall' = IF ~ok \/ ~ProductExists(product_id)
                THEN Returned(s, "delete_product", product_id, company_id, "False")
              ELSE IF ~Owns(db_products[product_id], company_id)
                THEN Refused(s, "delete_product", product_id, company_id, "False")
              ELSE Passed(s, "delete_product", product_id, company_id, << >>)
  /\ UNCHANGED <<db_products, post_analytics, db_schedules, posts>>

\* delete_product, lines 136-139: the delete, which does not raise for a
\* document that is no longer there
DeleteProductWrite(s, ok) ==
  /\ Writing(s, "delete_product")
  /\ LET product_id == dcall[s].id
     IN  IF ~ok
           THEN /\ dcall' = Returned(s, "delete_product", dcall[s].id, dcall[s].company_id, "False")
                /\ UNCHANGED db_products
           ELSE /\ db_products' = [db_products EXCEPT ![product_id] = Deleted]
                /\ dcall' = Returned(s, "delete_product", dcall[s].id, dcall[s].company_id, "True")
  /\ UNCHANGED <<post_analytics, db_schedules, posts>>

\* add_schedule
AddSchedule(s, schedule_data, company_id) ==
  /\ Free(s)
  /\ Cardinality(DOMAIN db_schedules) < MaxSchedules
  /\ LET schedule_id == <<"doc", Cardinality(DOMAIN db_schedules) + 1>>
     IN  /\ db_schedules' =
               (schedule_id :> [Stamp(schedule_data, company_id) EXCEPT !.status = "scheduled"])
                 @@ db_schedules
         /\ dcall' = Returned(s, "add_schedule", schedule_id[2], company_id, "id")
  /\ UNCHANGED <<db_products, post_analytics, posts>>

\* update_schedule, lines 401-413: the read and the test
UpdateScheduleCheck(s, schedule_id, schedule_data, company_id, ok) ==
  /\ Free(s)
  /\ dcall' = IF ~ok \/ schedule_id \notin DOMAIN db_schedules
                THEN Returned(s, "update_schedule", schedule_id[2], company_id, "False")
              ELSE IF ~Owns(db_schedules[schedule_id], company_id)
                THEN Refused(s, "update_schedule", schedule_id[2], company_id, "False")
              ELSE Passed(s, "update_schedule", schedule_id[2], company_id,
                          Stamp(schedule_data, company_id))
  /\ UNCHANGED <<db_products, post_analytics, db_schedules, posts>>

\* update_schedule, lines 415-422: the update
UpdateScheduleWrite(s, ok) ==
  /\ Writing(s, "update_schedule")
  /\ LET schedule_id == <<"doc", dcall[s].id>>
     IN  IF ~ok
           THEN /\ dcall' = Returned(s, "update_schedule", dcall[s].id, dcall[s].company_id, "False")
                /\ UNCHANGED db_schedules
           ELSE /\ db_schedules' = [db_schedules EXCEPT
                                      ![schedule_id] = dcall[s].data @@ db_schedules[schedule_id]]
                /\ dcall' = Returned(s, "update_schedule", dcall[s].id, dcall[s].company_id, "True")
  /\ UNCHANGED <<db_products, post_analytics, posts>>

\* record_post; the id of the post is its place in the collection
RecordPost(s, company_id) ==
  /\ Free(s)
  /\ Len(posts) < MaxDocs
  /\ posts' = Append(posts, [company_id |-> company_id, platform |-> "twitter"])
  /\ dcall' = Returned(s, "record_post", Len(posts) + 1, company_id, "id")
  /\ UNCHANGED <<db_products, post_analytics, db_schedules>>

\* record_post_analytics, lines 338-349: the read and the test
RecordPostAnalyticsCheck(s, post_id, company_id, ok) ==
  /\ Free(s)
  /\ dcall' = IF ~ok \/ post_id \notin DOMAIN posts
                THEN Returned(s, "record_post_analytics", post_id, company_id,
                              IF ok THEN "False" ELSE "None")
              ELSE IF ~Owns(posts[post_id], company_id)
                THEN Refused(s, "record_post_analytics", post_id, company_id, "False")
              ELSE Passed(s, "record_post_analytics", post_id, company_id, << >>)
  /\ UNCHANGED <<db_products, post_analytics, db_schedules, posts>>

\* record_post_analytics, lines 351-360: the analytics document is added
RecordPostAnalyticsWrite(s, ok) ==
  /\ Writing(s, "record_post_analytics")
  /\ Len(post_analytics) < MaxDocs
  /\ IF ~ok
       THEN /\ dcall' = Returned(s, "record_post_analytics", dcall[s].id, dcall[s].company_id, "None")
            /\ UNCHANGED post_analytics
       ELSE /\ post_analytics' = Append(post_analytics,
                                        [company_id |-> dcall[s].company_id,
                                         post_id |-> dcall[s].id])
            /\ dcall' = Returned(s, "record_post_analytics", dcall[s].id, dcall[s].company_id, "id")
  /\ UNCHANGED <<db_products, db_schedules, posts>>

\* what the calls of the DataAccessManager leave alone
DataFrame ==
  /\ UNCHANGED ledgerVars
  /\ UNCHANGED <<products, schedules, jobs, is_running, threads, published, metrics, ret,
                 webhook, fcall>>

\* Sessions of the tenants call the DataAccessManager, each with the
\* company id of its tenant context, while the store works or fails.
NextData ==
  \/ \E s \in Sessions, product_id \in 1..MaxDocs, company_id \in Tenants, ok \in BOOLEAN :
       GetProduct(s, product_id, company_id, ok) /\ DataFrame
  \/ \E s \in Sessions, product_data \in [company_id : Tenants, v : {1}],
        company_id \in Tenants :
       AddProduct(s, product_data, company_id) /\ DataFrame
  \/ \E s \in Sessions, product_id \in 1..MaxDocs, product_data \in ProductData,
        company_id \in Tenants, ok \in BOOLEAN :
       UpdateProductCheck(s, product_id, product_data, company_id, ok) /\ DataFrame
  \/ \E s \in Sessions, ok \in BOOLEAN : UpdateProductWrite(s, ok) /\ DataFrame
  \/ \E s \in Sessions, product_id \in 1..MaxDocs, company_id \in Tenants, ok \in BOOLEAN :
       DeleteProductCheck(s, product_id, company_id, ok) /\ DataFrame
  \/ \E s \in Sessions, ok \in BOOLEAN : DeleteProductWrite(s, ok) /\ DataFrame
  \/ \E s \in Sessions, schedule_data \in ScheduleData, company_id \in Tenants :
       AddSchedule(s, schedule_data, company_id) /\ DataFrame
  \/ \E s \in Sessions, schedule_id \in {<<"doc", 1>>}, schedule_data \in ScheduleData,
        company_id \in Tenants, ok \in BOOLEAN :
       UpdateScheduleCheck(s, schedule_id, schedule_data, company_id, ok) /\ DataFrame
  \/ \E s \in Sessions, ok \in BOOLEAN : UpdateScheduleWrite(s, ok) /\ DataFrame
  \/ \E s \in Sessions, company_id \in Tenants : RecordPost(s, company_id) /\ DataFrame
  \/ \E s \in Sessions, post_id \in 1..MaxDocs, company_id \in Tenants, ok \in BOOLEAN :
       RecordPostAnalyticsCheck(s, post_id, company_id, ok) /\ DataFrame
  \/ \E s \in Sessions, ok \in BOOLEAN : RecordPostAnalyticsWrite(s, ok) /\ DataFrame

SpecData == Init /\ [][NextData]_vars

\* -- ProductManager (src/utils/product_manager.py)

MaxProducts == 3

\* f"PROD_{n}"
ProdId(n) == <<"PROD_1", "PROD_2", "PROD_3", "PROD_4">>[n]

required_fields == <<"name", "description", "features", "target_audience">>

Restrict(data, keys) == [k \in keys |-> data[k]]

\* the product data a caller may pass: complete, with or without a category
\* or an id of the caller's, or lacking required fields
ProductKeys ==
  LET all == {"name", "description", "features", "target_audience", "category"}
  IN  {all, all \ {"category"}, all \cup {"id"},
       all \ {"name"}, all \ {"features"}, all \ {"description", "target_audience"}}

ProductDatas ==
  {Restrict(("id" :> "PROD_2") @@ FullProduct(name), keys) :
     name \in {"a", "b"}, keys \in ProductKeys}

\* what the calls of the ProductManager leave alone
ProductFrame ==
  /\ UNCHANGED ledgerVars
  /\ UNCHANGED <<db_products, post_analytics, dcall, webhook, schedules, db_schedules, jobs,
                 is_running, threads, published, metrics, posts, ret>>

FunctionReturned(fn, args, result) ==
  [fn |-> fn, args |-> args, result |-> result, pc |-> "done"]

\* product_id = f"PROD_{len(self.products) + 1}"
NewProductId == ProdId(Cardinality(DOMAIN products) + 1)

\* ProductManager.add_product
PmAddProduct(product_data) ==
  /\ Cardinality(DOMAIN products) < MaxProducts
  /\ LET product_id == IF "id" \notin DOMAIN product_data
                         THEN NewProductId ELSE product_data["id"]
         data == ("id" :> product_id) @@ product_data
         missing == {i \in DOMAIN required_fields : required_fields[i] \notin DOMAIN data}
     IN  IF missing # {}
           THEN /\ fcall' = FunctionReturned("add_product", product_data,
                     <<"Missing required field",
                       required_fields[CHOOSE i \in missing : \A j \in missing : i <= j]>>)
                /\ UNCHANGED products
           ELSE /\ products' = (product_id :> data) @@ products
                /\ fcall' = FunctionReturned("add_product", product_data, <<product_id>>)
  /\ ProductFrame

\* ProductManager.get_product; << >> is None
PmGetProduct(product_id) ==
  /\ fcall' = FunctionReturned("get_product", product_id,
                IF product_id \in DOMAIN products THEN <<products[product_id]>> ELSE << >>)
  /\ UNCHANGED products
  /\ ProductFrame

\* ProductManager.delete_product
PmDeleteProduct(product_id) ==
  /\ IF product_id \notin DOMAIN products
       THEN /\ fcall' = FunctionReturned("delete_product", product_id, <<FALSE>>)
            /\ UNCHANGED products
       ELSE /\ products' = [id \in DOMAIN products \ {product_id} |-> products[id]]
            /\ fcall' = FunctionReturned("delete_product", product_id, <<TRUE>>)
  /\ ProductFrame

\* The products: the ProductManager's file, which the scheduler reads, and
\* the products collection behind the DataAccessManager, which the product
\* pages write.
NextProducts ==
  \/ \E product_data \in ProductDatas : PmAddProduct(product_data)
  \/ \E n \in 1..MaxProducts : PmGetProduct(ProdId(n))
  \/ \E n \in 1..MaxProducts : PmDeleteProduct(ProdId(n))
  \/ \E product_data \in ProductDatas : AddProduct("s1", product_data, "t1") /\ DataFrame
  \/ \E product_id \in 1..MaxDocs : GetProduct("s1", product_id, "t1", TRUE) /\ DataFrame

SpecProducts == Init /\ [][NextProducts]_vars

\* schedule_post runs create_post, and so the content generator and the
\* vendor, only for "now"
PipelineOutcomes(schedule_time) ==
  IF schedule_time = "now" THEN BOOLEAN ELSE {TRUE}

\* The scheduler, started once: its interface, the run_scheduler thread and
\* the jobs, with one request thread in the "Schedule Post" handler.
NextSched ==
  \/ SchedulePostTab("c1", "t1", "twitter")
  \/ \E schedule_time \in {"date_future", "date_past"}, ok \in BOOLEAN :
       SchedulePostTabGate("c1", schedule_time, "once", ok)
  \/ UsageStep("c1", TRUE) /\ UNCHANGED schedVars
  \/ /\ NoCall /\ schedules = << >> /\ db_schedules = << >> /\ threads = << >>
     /\ CheckoutCompleted("t1", 100) /\ UNCHANGED schedVars
  \/ \E product_id \in ProductIds, platform \in Platforms,
        schedule_time \in ScheduleTimes \ {"daily"} :
       \E content_ok \in PipelineOutcomes(schedule_time),
          vendor_ok \in PipelineOutcomes(schedule_time) :
       SchedulePost(product_id, platform, schedule_time, "once", content_ok, vendor_ok)
  \/ \E schedule_id \in DOMAIN schedules \cup DOMAIN db_schedules :
       CancelSchedule(schedule_id)
  \/ threads = << >> /\ Start
  \/ Stop
  \/ \E t \in DOMAIN threads : ThreadBegin(t)
  \/ \E j \in DOMAIN jobs : TimerElapses(j)
  \/ \E t \in DOMAIN threads : RunPending(t)
  \/ \E t \in DOMAIN threads, content_ok \in BOOLEAN, vendor_ok \in BOOLEAN :
       JobCreate(t, content_ok, vendor_ok)
  \/ \E t \in DOMAIN threads : JobRecord(t)

SpecSched == Init /\ [][NextSched]_vars

\* The scheduler with start and stop called at any time from request
\* threads, beside the run_scheduler threads they have started.
NextLoop ==
  \/ \E schedule_time \in {"date_future", "date_past"} :
       SchedulePost("PROD_1", "twitter", schedule_time, "once", TRUE, TRUE)
  \/ Start
  \/ Stop
  \/ \E t \in DOMAIN threads : ThreadBegin(t)
  \/ \E j \in DOMAIN jobs : TimerElapses(j)
  \/ \E t \in DOMAIN threads : RunPending(t)
  \/ \E t \in DOMAIN threads, vendor_ok \in BOOLEAN : JobCreate(t, TRUE, vendor_ok)
  \/ \E t \in DOMAIN threads : JobRecord(t)

SpecLoop == Init /\ [][NextLoop]_vars

\* The scheduler alone: schedule_post and cancel_schedule called from a
\* request thread while the run_scheduler thread, started once, runs the
\* jobs that come due.
NextApi ==
  \/ \E product_id \in ProductIds, platform \in ApiPlatforms,
        schedule_time \in ScheduleTimes, recurrence \in Recurrences :
       \E content_ok \in PipelineOutcomes(schedule_time),
          vendor_ok \in PipelineOutcomes(schedule_time) :
       SchedulePost(product_id, platform, schedule_time, recurrence, content_ok, vendor_ok)
  \/ \E schedule_id \in DOMAIN schedules \cup {<<"SCH", 0>>} :
       CancelSchedule(schedule_id)
  \/ threads = << >> /\ Start
  \/ Stop
  \/ \E t \in DOMAIN threads : ThreadBegin(t)
  \/ \E j \in DOMAIN jobs : TimerElapses(j)
  \/ \E t \in DOMAIN threads : RunPending(t)
  \/ \E t \in DOMAIN threads, content_ok \in BOOLEAN, vendor_ok \in BOOLEAN :
       JobCreate(t, content_ok, vendor_ok)
  \/ \E t \in DOMAIN threads : JobRecord(t)

SpecApi == Init /\ [][NextApi]_vars
\* _load_schedules: an entry as data/schedules.json may hold it when the
\* scheduler is constructed
Statuses == {"scheduled", "completed", "failed", "cancelled"}

LoadedEntry(status) ==
  [product_id |-> "PROD_1", platform |-> "twitter",
   schedule_time |-> "date_future", recurrence |-> "once", status |-> status,
   last_run |-> IF status = "completed" THEN isoformat(now) ELSE << >>,
   last_post_id |-> IF status = "completed" THEN 1 ELSE 0,
   last_error |-> IF status = "failed" THEN "Failed to post" ELSE ""]

\* the scheduler constructed over a schedules file: no entry, or one entry
\* in any status; the schedule library holds no job for a loaded entry
InitLoaded ==
  /\ now = [mon |-> FirstMonth, day |-> 2, us |-> 0]
  /\ companies = [t1 |-> "free", t2 |-> "starter"]
  /\ balances = [t2 |-> 0]
  /\ usage = SetToBag({PriorEntry})
  /\ transactions = SetToBag({Txn("t2", "credit", RateGet("post") * PriorPosts),
                              Txn("t2", "debit", RateGet("post") * PriorPosts)})
  /\ call = [c \in Callers |-> Idle]
  /\ products = ("PROD_1" :> (("id" :> "PROD_1") @@ FullProduct("a")))
  /\ schedules \in {<< >>} \cup
                    {(<<"SCH", 1>> :> LoadedEntry(status)) : status \in Statuses}
  /\ db_schedules = << >>
  /\ jobs = << >>
  /\ is_running = FALSE
  /\ threads = << >>
  /\ published = << >>
  /\ metrics = << >>
  /\ posts = << >>
  /\ ret = [value |-> "", id |-> <<"", 0>>, args |-> << >>]
  /\ db_products = << >>
  /\ post_analytics = << >>
  /\ dcall = [s \in Sessions |-> NoDataCall]
  /\ webhook = NoWebhook
  /\ fcall = NoFunctionCall

SpecLoaded == InitLoaded /\ [][NextApi]_vars

\* ------------------------------------------------------------- properties

\* the unit rates of the specification, in cents
UnitRate == [post |-> 50, image_generation |-> 25, analytics |-> 10, scheduled_post |-> 40]

\* a call with the inputs the specification allows that has returned
Done(c) ==
  /\ call[c].pc = "done"
  /\ call[c].usage_type \in DOMAIN UnitRate
  /\ call[c].quantity >= 1

Amount(c) == UnitRate[call[c].usage_type] * call[c].quantity

\* what record_usage has added to the store since the call began
NewUsage(c) == BagCardinality(usage) - call[c].pre_usage
NewTxns(c) == BagCardinality(transactions) - call[c].pre_txns
Debits == {d \in DOMAIN transactions : d.type = "debit"}
NumDebits == BagCardinality([d \in Debits |-> transactions[d]])
Charged == {d \in DOMAIN usage : ~d.plan_covered}
NumCharged == BagCardinality([d \in Charged |-> usage[d]])

\* the call left the store as it found it
NoEffect(c) ==
  /\ NewUsage(c) = 0
  /\ NewTxns(c) = 0
  /\ BalanceOf(call[c].company_id) = call[c].pre_balance

\* the call charged the balance for the full quantity
ChargedInFull(c) ==
  /\ BalanceOf(call[c].company_id) = call[c].pre_balance - Amount(c)
  /\ NewTxns(c) = 1
  /\ BagIn(Txn(call[c].company_id, "debit", Amount(c)), transactions)
  /\ NewUsage(c) = 1
  /\ \E d \in DOMAIN usage :
       /\ d.company_id = call[c].company_id
       /\ d.type = call[c].usage_type
       /\ d.quantity = call[c].quantity
       /\ d.amount = Amount(c)
       /\ ~d.plan_covered

\* C1: no stored balance is ever below zero, and a debit that finds less in
\* the balance than it charges writes exactly zero.
C1_BalanceFloor ==
  /\ [](\A t \in DOMAIN balances : balances[t] >= 0)
  /\ [][\A c \in Callers :
          (call[c].pc = "deduct_update" /\ call'[c].pc = "deduct_txn")
            => /\ balances'[call[c].company_id] >= 0
               /\ (call[c].current_balance < Amount(c)
                     => balances'[call[c].company_id] = 0)]_vars

C1_Witness ==
  \E c \in Callers :
    /\ call[c].pc = "deduct_txn"
    /\ call[c].clamped
    /\ balances[call[c].company_id] = 0

C3_PlanCovered ==
  \A c \in Callers :
    (Done(c) /\ call[c].entitled /\ ~call[c].faulted)
      => /\ call[c].result.success
         /\ call[c].plan_covered
         /\ NewUsage(c) = 1
         /\ BalanceOf(call[c].company_id) = call[c].pre_balance

C6_MonthToDate ==
  \A c \in Callers :
    call[c].pc # "idle" => call[c].current_usage = call[c].month_usage

C6_Witness ==
  \E c \in Callers :
    /\ call[c].pc = "check_get"
    /\ now = [mon |-> MaxMonth, day |-> 1, us |-> 0]
    /\ call[c].company_id = "t2" /\ call[c].usage_type = "post"
    /\ BagIn(PriorEntry, usage)
    /\ call[c].current_usage = 0

\* C7 as stated: the debit of the balance, the debit transaction and the
\* ledger entry happen together or not at all, the debit transactions are as
\* many as the charged ledger entries after every call, and success comes
\* only with all three.
C7_Atomic ==
  \A c \in Callers :
    Done(c) =>
      /\ call[c].did_update = call[c].did_txn
      /\ call[c].did_txn = call[c].did_usage
      /\ NumDebits = NumCharged
      /\ (call[c].result.success /\ ~call[c].plan_covered)
           => call[c].did_update /\ call[c].did_txn /\ call[c].did_usage

\* C7 as amended: a charged call that succeeds has done all three and
\* returns the entry id; a call in which no store operation failed has done
\* all three or none; the effects happen in the order balance, transaction,
\* entry, so a failure of a later write leaves the earlier ones in place.
C7_AtomicUnlessStoreFails ==
  \A c \in Callers :
    Done(c) =>
      /\ (call[c].result.success /\ ~call[c].plan_covered)
           => /\ ChargedInFull(c)
              /\ call[c].result.id
              /\ call[c].did_update /\ call[c].did_txn /\ call[c].did_usage
      /\ ~call[c].faulted
           => /\ call[c].did_update = call[c].did_txn
              /\ call[c].did_txn = call[c].did_usage
              /\ (call[c].did_usage => call[c].result.success)
      /\ call[c].did_usage => NewUsage(c) = 1
      /\ call[c].did_txn => NewTxns(c) = 1 /\ call[c].did_update
      /\ ~call[c].did_txn => NewTxns(c) = 0
      /\ (call[c].did_usage /\ ~call[c].plan_covered) => call[c].did_txn
      /\ NumDebits >= NumCharged

C7_Witness ==
  \E c \in Callers :
    /\ Done(c) /\ call[c].result.success /\ ~call[c].plan_covered /\ ~call[c].faulted
    /\ call[c].did_update /\ call[c].did_txn /\ call[c].did_usage
    /\ ChargedInFull(c)

\* C8: every post made on a platform, from the "Post Now" handler, from
\* schedule_post or from a job, follows a record_usage call for it that
\* returned success; after a failure result nothing is posted.
C8_AdmittedBeforePublish ==
  \A i \in DOMAIN published : published[i].admitted

\* C9: a job that begins when cancel_schedule has set the status of its entry
\* to "cancelled" posts nothing and leaves the status as it is.
C9_CancelEffective ==
  [][\A t \in DOMAIN threads :
       /\ ( /\ threads[t].pc = "create"
            /\ threads'[t].pc = "record"
            /\ jobs[Head(threads[t].queue)].schedule_id \in DOMAIN schedules
            /\ schedules[jobs[Head(threads[t].queue)].schedule_id].status = "cancelled" )
          => published' = published
       /\ ( /\ threads[t].pc = "record"
            /\ threads'[t].pc # "record"
            /\ threads[t].cancelled )
          => schedules'[jobs[Head(threads[t].queue)].schedule_id].status = "cancelled"
    ]_vars

\* C10: whatever a job does, no exception leaves it: no run_scheduler thread
\* ends by an exception raised in run_pending.
C10_LoopSurvives ==
  \A t \in DOMAIN threads : threads[t].pc # "dead"

\* a one-shot entry: an absolute date and time, recurrence "once"
OneShot(entry) ==
  /\ entry.schedule_time \in {"date_future", "date_past"}
  /\ entry.recurrence = "once"

\* the schedule entry of the job that thread t is running
EntryOf(t) == jobs[Head(threads[t].queue)].schedule_id

\* thread t begins the body of a job in this step; it ends it in this step
JobBegins(t) == threads[t].pc = "create" /\ threads'[t].pc = "record"
JobEnds(t) == threads[t].pc = "record" /\ threads'[t].pc \in {"loop", "create"}

\* C11: the job of a one-shot entry runs at most once: it begins only when it
\* has not run before, and once the entry is completed or failed no job
\* makes a post for it.
C11_OneShotAtMostOnce ==
  [][\A t \in DOMAIN threads :
       /\ ( /\ JobBegins(t)
            /\ EntryOf(t) \in DOMAIN schedules
            /\ OneShot(schedules[EntryOf(t)]) )
          => /\ jobs[Head(threads[t].queue)].runs = 0
             /\ schedules[EntryOf(t)].status \in {"completed", "failed"}
                  => published' = published
    ]_vars

\* C12: when the post of a due one-shot job is taken by the platform, the
\* job leaves the entry completed, with last_run set and last_post_id the id
\* of the post, and a metrics record with that post id has been collected.
C12_SuccessRecorded ==
  [][\A t \in DOMAIN threads :
       ( /\ JobEnds(t)
         /\ threads[t].outcome = "published"
         /\ OneShot(schedules[EntryOf(t)]) )
       => /\ schedules'[EntryOf(t)].status = "completed"
          /\ schedules'[EntryOf(t)].last_run # << >>
          /\ schedules'[EntryOf(t)].last_post_id = threads[t].posted
          /\ \E i \in DOMAIN metrics' : metrics'[i].post_id = threads[t].posted
    ]_vars

\* a recurring entry: a daily schedule time, or a recurrence other than "once"
Recurring(entry) ==
  entry.schedule_time = "daily" \/ entry.recurrence # "once"

\* C13: a run of the job of a recurring entry that is not cancelled leaves
\* the entry scheduled, whether the run succeeded or failed.
C13_RecurringRearmed ==
  [][\A t \in DOMAIN threads :
       ( /\ JobEnds(t)
         /\ Recurring(schedules[EntryOf(t)])
         /\ schedules[EntryOf(t)].status # "cancelled" )
       => schedules'[EntryOf(t)].status = "scheduled"
    ]_vars

\* C14: schedule_post with a date and time that has passed adds no entry to
\* the schedules and does not return a schedule id.
C14_PastRejected ==
  /\ \A id \in DOMAIN schedules : schedules[id].schedule_time # "date_past"
  /\ ret.value = "schedule_id" => schedules[ret.id].schedule_time # "date_past"

\* the platform call of the job's create_post failed
PublishFailed(outcome) == outcome \in {"not_configured", "vendor_failed"}

\* C15: when the publish call of a due one-shot job fails, the job makes no
\* post, no post record and no metrics record, and leaves the entry failed
\* with last_error filled in and last_post_id not set.
C15_PublishFailure ==
  [][\A t \in DOMAIN threads :
       /\ ( /\ JobBegins(t)
            /\ PublishFailed(threads'[t].outcome)
            /\ OneShot(schedules[EntryOf(t)]) )
          => /\ ~threads'[t].post_result.success
             /\ UNCHANGED <<published, posts, metrics>>
       /\ ( /\ JobEnds(t)
            /\ PublishFailed(threads[t].outcome)
            /\ OneShot(schedules[EntryOf(t)]) )
          => /\ schedules'[EntryOf(t)].status = "failed"
             /\ schedules'[EntryOf(t)].last_error # ""
             /\ schedules'[EntryOf(t)].last_post_id = 0
             /\ schedules'[EntryOf(t)].last_run = << >>
             /\ UNCHANGED <<published, posts, metrics>>
    ]_vars

C15_Witness ==
  \E t \in DOMAIN threads, id \in DOMAIN schedules :
    /\ threads[t].pc = "loop"
    /\ threads[t].outcome = "vendor_failed"
    /\ OneShot(schedules[id])
    /\ schedules[id].status = "failed"
    /\ schedules[id].last_error = "Failed to post"

C17_StoreFailureSurfaced ==
  \A c \in Callers :
    (Done(c) /\ call[c].faulted) => ~call[c].result.success

\* C18: schedule_post for a product that is not stored, or for a platform
\* that is not among the configured platforms, returns the matching error
\* text and changes neither the schedules, the registered jobs, the posts
\* made nor anything stored (ret.args holds the product and the platform the
\* call was made for).
C18_ValidationNoEffect ==
  [][( /\ ret' # ret
       /\ ret'.args # << >>
       /\ ret'.args[1] \notin DOMAIN products \/ ret'.args[2] \notin ConfigPlatforms )
       => /\ ret'.value = IF ret'.args[1] \notin DOMAIN products
                            THEN "Product not found" ELSE "Platform not configured"
          /\ UNCHANGED <<schedules, jobs, published, metrics, posts, db_schedules>>
    ]_vars

C18_Witness ==
  /\ ret.value = "Platform not configured"
  /\ ret.args = <<"PROD_1", "tiktok">>
  /\ schedules # << >>
  /\ \A i \in DOMAIN published : published[i].platform \in ConfigPlatforms
  /\ \A id \in DOMAIN schedules : schedules[id].platform \in ConfigPlatforms

\* C19: schedule_post called with "now" for a stored product and a configured
\* platform runs create_post in the call and returns what create_post
\* reported, "Posted successfully" for a result with success and "Failed to
\* post" otherwise, and leaves the schedules, the store and the registered
\* jobs as they were, whichever way the publish went.
C19_NowLeavesRegistry ==
  [][\A product_id \in DOMAIN products, platform \in ApiPlatforms \cap ConfigPlatforms,
        recurrence \in Recurrences, content_ok \in BOOLEAN, vendor_ok \in BOOLEAN :
       ( /\ ret'.args = <<product_id, platform>>
         /\ SchedulePost(product_id, platform, "now", recurrence, content_ok, vendor_ok) )
       => /\ UNCHANGED <<schedules, db_schedules, jobs>>
          /\ ret'.id = NoId
          /\ ret'.value =
               IF CreatePost(product_id, platform, content_ok, vendor_ok,
                             Len(published) + 1).success
                 THEN "Posted successfully" ELSE "Failed to post"
          /\ Len(published') = Len(published) +
               (IF CreatePostOutcome(product_id, platform, content_ok, vendor_ok)
                     = "published" THEN 1 ELSE 0)
    ]_vars

C19_Witness ==
  /\ ret.value = "Failed to post"
  /\ schedules # << >>
  /\ \E i \in DOMAIN published : published[i].by = "now"
  /\ \A id \in DOMAIN schedules : schedules[id].schedule_time # "now"
  /\ \A j \in DOMAIN jobs : jobs[j].schedule_id \in DOMAIN schedules

\* the tenant that owns the record a guarded call is made for, "" when there
\* is no such record
TargetOwner(op, id) ==
  IF op \in {"get_product", "update_product", "delete_product"}
    THEN IF ProductExists(id) THEN db_products[id].company_id ELSE ""
  ELSE IF op = "update_schedule"
    THEN IF <<"doc", id>> \in DOMAIN db_schedules
           THEN db_schedules[<<"doc", id>>].company_id ELSE ""
  ELSE IF op = "record_post_analytics"
    THEN IF id \in DOMAIN posts THEN posts[id].company_id ELSE ""
  ELSE ""

\* session s is about to write, for tenant company_id, the record id
OwnerWrites(ops, id, company_id) ==
  \E s \in Sessions : /\ dcall[s].pc = "write"
                      /\ dcall[s].op \in ops
                      /\ dcall[s].id = id
                      /\ dcall[s].company_id = company_id

\* C20: get_product, update_product, delete_product, update_schedule and
\* record_post_analytics called with a company id other than the one of the
\* record they are called for return None or False and change no collection;
\* a stored product or schedule changes only in the write of a call made
\* with its owner's company id, a stored post never changes, and no step
\* changes the company id of a record that stays in the store.
C20_TenantIsolation ==
  [][ /\ \A s \in Sessions :
           ( /\ dcall'[s] # dcall[s]
             /\ dcall[s].pc # "write"
             /\ TargetOwner(dcall'[s].op, dcall'[s].id) \notin {"", dcall'[s].company_id} )
           => /\ dcall'[s].pc = "done"
              /\ dcall'[s].result \in {"None", "False"}
              /\ UNCHANGED <<db_products, db_schedules, posts, post_analytics>>
      /\ \A product_id \in DOMAIN db_products :
           ProductExists(product_id)
           => /\ db_products'[product_id] # db_products[product_id]
                   => OwnerWrites({"update_product", "delete_product"}, product_id,
                                  db_products[product_id].company_id)
              /\ db_products'[product_id].exists
                   => db_products'[product_id].company_id = db_products[product_id].company_id
      /\ \A schedule_id \in DOMAIN db_schedules :
           /\ db_schedules'[schedule_id] # db_schedules[schedule_id]
                => OwnerWrites({"update_schedule"}, schedule_id[2],
                               db_schedules[schedule_id].company_id)
           /\ db_schedules'[schedule_id].company_id = db_schedules[schedule_id].company_id
      /\ \A post_id \in DOMAIN posts : posts'[post_id] = posts[post_id]
      /\ \A i \in DOMAIN post_analytics' :
           post_analytics'[i].company_id = posts'[post_analytics'[i].post_id].company_id
    ]_vars

C20_Witness ==
  /\ ProductExists(1)
  /\ db_products[1] = Document([company_id |-> "t1", v |-> 2])
  /\ dcall["s1"].op = "update_product" /\ dcall["s1"].company_id = "t2"
  /\ dcall["s1"].warned /\ dcall["s1"].result = "False"
  /\ dcall["s2"].op = "update_schedule" /\ dcall["s2"].company_id = "t1"
  /\ dcall["s2"].warned
  /\ db_schedules[<<"doc", 1>>] = [company_id |-> "t2", status |-> "scheduled"]

\* the checkout session carries a tenant and a positive amount
ValidCheckout == webhook.company_id # None /\ webhook.amount > 0

\* C21: a completed checkout with a tenant and an amount above zero adds
\* exactly the amount to the tenant's balance, creating the balance document
\* when there is none, and adds exactly one credit transaction; a checkout
\* with no tenant or with an amount of zero or less changes neither the
\* balances nor the transactions.  The credit of the balance and the credit
\* transaction are asked for together only: a call in which the store failed
\* may have done neither.
C21_FundsCredited ==
  /\ []((webhook.pc = "done" /\ ValidCheckout)
          => /\ webhook.did_update = webhook.did_txn
             /\ ~webhook.faulted => webhook.did_update /\ webhook.did_txn)
  /\ []((webhook.pc = "done" /\ ~ValidCheckout)
          => ~webhook.did_update /\ ~webhook.did_txn)
  /\ [][(webhook.pc \in {"funds_update", "funds_set"} /\ webhook'.did_update)
          => /\ webhook.company_id \in DOMAIN balances'
             /\ balances'[webhook.company_id] =
                  BalanceOf(webhook.company_id) + webhook.amount]_vars
  /\ [][(webhook.pc = "credit_txn" /\ webhook'.did_txn)
          => transactions' =
               Add(transactions, Txn(webhook.company_id, "credit", webhook.amount))]_vars
  /\ [][(webhook' # webhook /\ webhook.pc \in {"idle", "done"} /\ webhook'.pc = "done")
          => UNCHANGED <<balances, transactions>>]_vars

\* the hashtags among the pieces of a string, in order
RECURSIVE TagsOf(_)
TagsOf(string) ==
  IF string = << >> THEN << >>
  ELSE IF Head(string).kind = "tag" THEN << Head(string) >> \o TagsOf(Tail(string))
  ELSE TagsOf(Tail(string))

\* the copy, and after a line break the hashtags joined by blanks
Assembled(copy, hashtags) ==
  IF hashtags = << >> THEN << copy >>
  ELSE << copy, Piece("\n", 1) >> \o Join(hashtags)

\* C22: for a copy of at most 280 characters and a list of hashtags that is
\* not empty, the status text has at most 280 characters, begins with the
\* whole copy and goes on with whole hashtags, the first ones of the list in
\* their order; all of them when copy, line break and joined hashtags come
\* to 280 characters or less.
C22_StatusWithinLimit ==
  (fcall.fn = "post_to_twitter" /\ fcall.pc = "done"
     /\ fcall.args.copy.len <= TwitterLimit /\ fcall.args.hashtags # << >>)
  => LET copy == fcall.args.copy
         hashtags == fcall.args.hashtags
         text == fcall.result
         kept == TagsOf(text)
     IN  /\ StrLen(text) <= TwitterLimit
         /\ Len(kept) <= Len(hashtags)
         /\ kept = SubSeq(hashtags, 1, Len(kept))
         /\ text = Assembled(copy, kept)
         /\ StrLen(Assembled(copy, hashtags)) <= TwitterLimit => kept = hashtags

C22_Witness ==
  /\ fcall.fn = "post_to_twitter" /\ fcall.pc = "done"
  /\ fcall.args.copy.len = 270
  /\ Len(fcall.args.hashtags) = 3
  /\ Len(TagsOf(fcall.result)) = 2
  /\ StrLen(fcall.result) = 279

\* ---------------------------------------------------------------------
\* Products

Supplied(product_data, stored) ==
  \A k \in DOMAIN product_data \ {"id"} : k \in DOMAIN stored /\ stored[k] = product_data[k]

LacksRequired(product_data) ==
  \E i \in DOMAIN required_fields : required_fields[i] \notin DOMAIN product_data

\* C23: a product added and then fetched by the id add_product returned has
\* every supplied field (name, description, features in order,
\* target_audience, category) unchanged, and add_product of product data
\* lacking a required field returns an error and leaves the product store
\* unchanged; of the ProductManager and of the DataAccessManager.
C23_RoundTrip ==
  /\ [][(fcall' # fcall /\ fcall'.fn = "add_product")
          => IF LacksRequired(fcall'.args)
               THEN fcall'.result[1] = "Missing required field" /\ products' = products
               ELSE /\ fcall'.result[1] \in DOMAIN products'
                    /\ Supplied(fcall'.args, products'[fcall'.result[1]])]_vars
  /\ [][(fcall' # fcall /\ fcall'.fn = "get_product" /\ fcall'.args \in DOMAIN products)
          => fcall'.result = <<products[fcall'.args]>>]_vars
  /\ [][\A product_id \in DOMAIN db_products' \ DOMAIN db_products :
          /\ ~LacksRequired(db_products'[product_id])
          /\ dcall'["s1"].op = "add_product" /\ dcall'["s1"].id = product_id
          /\ dcall'["s1"].result = "id"]_vars

\* C29: add_product without an id of the caller's never overwrites a stored
\* product: after any sequence of add_product and delete_product calls, an
\* add_product that succeeds leaves one product more in the store and every
\* product stored before as it was.
C29_AddNeverOverwrites ==
  [][(fcall' # fcall /\ fcall'.fn = "add_product" /\ "id" \notin DOMAIN fcall'.args
        /\ fcall'.result[1] # "Missing required field")
       => /\ Cardinality(DOMAIN products') = Cardinality(DOMAIN products) + 1
          /\ \A product_id \in DOMAIN products :
               product_id \in DOMAIN products' /\ products'[product_id] = products[product_id]]_vars

\* ---------------------------------------------------------------------
\* Publishing

\* C24: post_ad returns a result for every ad content and every outcome of
\* the vendor, an exception of the vendor and a platform with no client
\* included: success is true exactly when post_id is not None, and a result
\* with success false has an error message that is not empty.
C24_PostAdContract ==
  (fcall.fn = "post_ad" /\ fcall.pc = "done")
  => /\ Len(fcall.result) = 1
     /\ LET result == fcall.result[1]
        IN  /\ {"success", "post_id"} \subseteq DOMAIN result
            /\ result.success \in BOOLEAN
            /\ result.success <=> result.post_id # 0
            /\ result.success
                 => /\ fcall.args.vendor = "id" /\ fcall.args.platform \in Clients
                    /\ result.post_id = fcall.args.post_id
            /\ ~result.success => "error" \in DOMAIN result /\ result.error # ""

C24_Witness ==
  /\ fcall.fn = "post_ad" /\ fcall.pc = "done"
  /\ fcall.args.vendor = "raises" /\ fcall.args.platform \in Clients
  /\ ~fcall.result[1].success
  /\ fcall.result[1].error = "Failed to post"

\* ---------------------------------------------------------------------
\* Interleaved calls on one balance

ChargedCall(c) == call[c].pc = "done" /\ call[c].result.success /\ call[c].did_update

\* C25: two record_usage calls of one tenant that interleave can both pass
\* the balance check on the same balance and both return success, the
\* amounts charged coming to more than that balance.  Each call on its own
\* is charged only after its check has read a balance that covers its
\* amount; a call charged more than the balance its debit read has had the
\* balance lowered between its check and its debit.
C25_OverspendByInterleaving ==
  \A c \in Callers :
    ChargedCall(c)
    => /\ call[c].checked >= Required(c)
       /\ call[c].clamped => call[c].current_balance < call[c].checked

C25_Witness ==
  /\ ChargedCall("c1") /\ ChargedCall("c2")
  /\ call["c1"].company_id = call["c2"].company_id
  /\ call["c1"].checked = call["c2"].checked
  /\ Required("c1") + Required("c2") > call["c1"].checked
  /\ call["c1"].did_usage /\ call["c2"].did_usage

\* the amounts of the documents docs of the transaction log
RECURSIVE SumAmount(_)
SumAmount(docs) ==
  IF docs = {} THEN 0
  ELSE LET d == CHOOSE x \in docs : TRUE
       IN d.amount * transactions[d] + SumAmount(docs \ {d})

Logged(company_id, type) ==
  SumAmount({d \in DOMAIN transactions : d.company_id = company_id /\ d.type = type})

Quiet == webhook.pc \in {"idle", "done"} /\ call["c1"].pc \in {"idle", "done"}

\* C30: no update of the balance is lost when a credit and a debit of one
\* tenant interleave: with both calls over and the debit not clamped, the
\* balance is what the transaction log adds up to, every credit less every
\* debit (the store starts with no funds and a log that balances).
C30_NoLostUpdate ==
  (Quiet /\ webhook.did_update /\ call["c1"].did_update /\ ~call["c1"].clamped
     /\ webhook.company_id = call["c1"].company_id)
  => LET company_id == webhook.company_id
     IN  BalanceOf(company_id) = Logged(company_id, "credit") - Logged(company_id, "debit")

\* ---------------------------------------------------------------------
\* The timer loop

\* the run_scheduler threads inside a job
InJob == {t \in DOMAIN threads : threads[t].pc \in {"create", "record"}}

\* the run_scheduler threads that have not ended
Live == {t \in DOMAIN threads : threads[t].pc \in {"begin", "loop", "create", "record"}}

\* C26: the jobs the timer starts run strictly one at a time: in every
\* reachable state at most one job is running, and a job that is due begins
\* only when the job begun before it has ended.
C26_JobsOneAtATime ==
  /\ [](Cardinality(InJob) <= 1)
  /\ [][\A t \in DOMAIN threads :
          (threads[t].pc = "loop" /\ threads'[t].pc = "create") => InJob = {}]_vars

\* C28: after any sequence of start and stop calls at most one
\* run_scheduler thread is running: start while a loop is running makes no
\* thread, and a start after a stop never leaves the loop of before polling.
C28_OneLoopThread ==
  /\ [](Cardinality(Live) <= 1)
  /\ [][(Len(threads') > Len(threads)) => Live = {}]_vars

\* ---------------------------------------------------------------------
\* Analytics

\* the records of the window, the platforms that have one, and the score of
\* a platform by the weights of the claim, in tenths: the totals of the
\* window weighted, to be divided by the number of posts
Window == {i \in DOMAIN fcall.args : fcall.args[i].age <= AnalysisDays}
Posted == {fcall.args[i].platform : i \in Window}
PostsOn(platform) == {i \in Window : fcall.args[i].platform = platform}
FirstPost(platform) == CHOOSE i \in PostsOn(platform) : \A j \in PostsOn(platform) : i <= j

RECURSIVE Weighted(_)
Weighted(docs) ==
  IF docs = {} THEN 0
  ELSE LET i == CHOOSE x \in docs : TRUE
           e == fcall.args[i].engagement
           Of(metric) == IF metric \in DOMAIN e THEN e[metric] ELSE 0
       IN  3 * Of("impressions") + 2 * Of("likes") + 3 * Of("comments") + 4 * Of("clicks")
           + 5 * (Of("shares") + Of("retweets")) + Weighted(docs \ {i})

\* the score of p is at least (more than) the score of q
ScoreGE(p, q) ==
  Weighted(PostsOn(p)) * Cardinality(PostsOn(q)) >= Weighted(PostsOn(q)) * Cardinality(PostsOn(p))
ScoreGT(p, q) ==
  Weighted(PostsOn(p)) * Cardinality(PostsOn(q)) > Weighted(PostsOn(q)) * Cardinality(PostsOn(p))

====
